---- MODULE Spec2Model ----
(***************************************************************************)
(* Simulation orchestration of the yearn SDK: SimulationInterface.deposit  *)
(* and SimulationInterface.withdraw, the approval step that precedes the   *)
(* primary simulated call, and the re-simulation wrapper around it.        *)
(*                                                                         *)
(* One transfer is a sequential pipeline of awaited collaborator calls.    *)
(* Every await is one action; the collaborator answers or fails            *)
(* nondeterministically.  Every collaborator call is appended to `calls`   *)
(* with the sandbox (fork) id, save flag and root it carried and with what *)
(* it returned.                                                            *)
(***************************************************************************)
EXTENDS Integers, Sequences, FiniteSets, TLC

\* ------------------------------------------------------------------ bounds
MaxAmount == 1
MaxUsdc == 2

\* --------------------------------------------------------------- constants
Undefined == <<>>
EthAddress == "0xEeeeeEeeeEeEeeEeEeEeeEEEeeeeEeeeeeeeEEeE"
Tokens == {EthAddress, "DAI", "USDC"}
DepositVaults == {"yvDAI", "pickleJar"}
WithdrawVaults == {"yvDAI", EthAddress}
Chains == {"ethereum", "fantom", "other"}
Slippages == {"undefined", "0", "0.01"}
CallerForkIds == {Undefined, <<"callerFork">>}
CallerRoots == {Undefined, <<"callerRoot">>}
ZapNames == {"zapperZapIn", "ftmApeZap", "zapperZapOut"}

isEthereum(chainId) == chainId = "ethereum"
isFantom(chainId) == chainId = "fantom"

\* variant: the slippage guard is missing
NoSlippage_Never(options) == FALSE

\* `!options.slippage`: an absent slippage and a slippage of 0 are both falsy
NoSlippage(options) == options.slippage \in {"undefined", "0"}

\* token.supported and the vault metadata, as getZapInDetails reads them:
\* supported[z] is "absent" (key not in the map), "false" or "true"
SupportedMaps == [ZapNames -> {"absent", "false", "true"}]
TokenValues == [hasSupported : BOOLEAN, supported : SupportedMaps]
NullMetadata == [isNull |-> TRUE, zapInWith |-> "undefined"]
MetadataValues ==
  {NullMetadata} \cup [isNull : {FALSE}, zapInWith : ZapNames \cup {"undefined"}]
\* what vaults.getDynamic([toVault]) answers: no vault, or a vault with its metadata
NoVault == [found |-> FALSE, metadata |-> NullMetadata]
DynamicVaults == {NoVault} \cup [found : {TRUE}, metadata : MetadataValues]

isValidZap(zap, zaps) == zap \in ZapNames /\ zaps[zap] # "absent"

\* variant: on Fantom the hardcoded zap counts as supported for every token
getZapInDetails_FantomAlways(chainId, token, vaultMetadata) ==
  IF ~token.hasSupported \/ vaultMetadata.isNull
  THEN [isZapInSupported |-> FALSE, zapInWith |-> "undefined"]
  ELSE IF isEthereum(chainId) /\ vaultMetadata.zapInWith # "undefined"
          /\ isValidZap(vaultMetadata.zapInWith, token.supported)
  THEN [isZapInSupported |-> token.supported[vaultMetadata.zapInWith] = "true",
        zapInWith |-> vaultMetadata.zapInWith]
  ELSE IF isFantom(chainId)
  THEN [isZapInSupported |-> TRUE, zapInWith |-> "ftmApeZap"]
  ELSE [isZapInSupported |-> FALSE, zapInWith |-> "undefined"]

getZapInDetails(chainId, token, vaultMetadata) ==
  IF ~token.hasSupported \/ vaultMetadata.isNull
  THEN [isZapInSupported |-> FALSE, zapInWith |-> "undefined"]
  ELSE IF isEthereum(chainId) /\ vaultMetadata.zapInWith # "undefined"
          /\ isValidZap(vaultMetadata.zapInWith, token.supported)
  THEN [isZapInSupported |-> token.supported[vaultMetadata.zapInWith] = "true",
        zapInWith |-> vaultMetadata.zapInWith]
  ELSE IF isFantom(chainId)
  THEN [isZapInSupported |-> token.supported["ftmApeZap"] = "true",
        zapInWith |-> "ftmApeZap"]
  ELSE [isZapInSupported |-> FALSE, zapInWith |-> "undefined"]

NoZapDetails == [isZapInSupported |-> FALSE, zapInWith |-> "undefined"]

\* ---------------------------------------------------------------- amounts
\* Amounts are scaled down: the vault's precision is two decimals and the
\* price per share is expressed in that precision (105 is 1.05 underlying
\* tokens per share), so that every product stays within machine integers.
DecimalsValues == {2}
PricePerShareValues == {100, 105}
TokensReceivedValues == {950}
UsdcValues == 0..MaxUsdc

RECURSIVE Pow10(_)
Pow10(n) == IF n = 0 THEN 1 ELSE 10 * Pow10(n - 1)

RECURSIVE GCD(_, _)
GCD(a, b) == IF b = 0 THEN a ELSE GCD(b, a % b)

\* a JavaScript number is a fraction <<numerator, denominator>> in lowest
\* terms; the non-finite numbers have a zero denominator
NaN == <<0, 0>>
Infinity == <<1, 0>>
NegInfinity == <<-1, 0>>

\* BigNumber#div followed by toNumber(): the quotient n/d of two non-negative
\* numbers; a zero divisor yields Infinity, 0/0 yields NaN
Quotient(n, d) ==
  IF d = 0 THEN (IF n = 0 THEN NaN ELSE Infinity)
  ELSE <<n \div GCD(n, d), d \div GCD(n, d)>>

\* variant: a negative slippage is clamped to zero
OneMinus_Clamped(q) ==
  IF q = NaN THEN NaN
  ELSE IF q = Infinity \/ q[1] > q[2] THEN <<0, 1>>
  ELSE <<q[2] - q[1], q[2]>>

\* `1 - conversionRate`
OneMinus(q) ==
  IF q = NaN THEN NaN
  ELSE IF q = Infinity THEN NegInfinity
  ELSE <<q[2] - q[1], q[2]>>

\* BigNumber#toFixed(0) of n/d under the library's default ROUNDING_MODE,
\* ROUND_HALF_UP: the nearest integer, a half rounding away from zero
toFixed0(n, d) == (2 * n + d) \div (2 * d)

\* toBN(tokensReceived).div(toBN(10).pow(decimals)).multipliedBy(pricePerShare).toFixed(0)
targetUnderlyingTokensReceived(tokensReceived, decimals, pricePerShare) ==
  toFixed0(tokensReceived * pricePerShare, Pow10(decimals))

\* the values a producer invocation has obtained so far
NoVals == [tokensReceived |-> Undefined, targetUsdc |-> Undefined,
           picklePrice |-> Undefined, sourceUsdc |-> Undefined,
           decimals |-> Undefined, pricePerShare |-> Undefined]

\* `const HourInMilliseconds = 1000 * 60 * 60`
HourInMilliseconds == 3600000
\* `export const PickleJars = [...]`, and a jar the service does not list
PickleJars == {"yvboost-eth"}
JarAddresses == PickleJars \cup {"otherJar"}
\* pickleJarUSDPrices as constructed: `new Map()`; a jar without an entry is -1
NoPrices == [j \in PickleJars |-> 0 - 1]

\* ------------------------------------------------------------------- state
VARIABLES
  chainId,     \* this.chainId, fixed at construction
  pc,          \* position of the transfer in its handler
  op,          \* "none", "deposit", "withdraw", "depositV1" (the earlier deposit)
  args,        \* the arguments of the call and the vault's underlying token
  options,     \* the caller's options object (the handlers assign to it)
  path,        \* "none", "direct", "zap"
  needsApproving,
  forkId,      \* the handler's local forkId, also handed to the wrapper
  root,        \* the approval simulation id captured by the producer closure
  attempt,     \* 0 before the wrapper runs, then 1 or 2
  saveArg,     \* the `save` argument of the running producer call
  retryFork,   \* the sandbox the wrapper allocated for the second attempt
  attemptErrors, \* the errors thrown by the producer, one per failed attempt
  dynVault,    \* deposit's local `vault`, as getDynamic answered it
  popts,       \* the options copy deposit's producer closure builds per call
  calls,       \* every collaborator call so far, in order
  result,      \* "pending", "outcome", or the error raised to the caller
  zapDetails,  \* deposit's { isZapInSupported, zapInWith }
  vals,        \* the amounts and prices the running producer call has read
  outcome,     \* the TransactionOutcome returned to the caller, if any
  transfers,   \* two withdraws in flight at once: each one's locals
  heap,        \* the options objects those two withdraws were called with
  clog,        \* the sandbox requests those two withdraws have issued
  tokenCalls,  \* the TokenInterface calls made so far, with what each one did
  zapCalls,    \* the getZapInDetails calls made so far: arguments and result
  pickle,      \* the PickleService object, the clock, and its calls so far
  resolver     \* one resolveV2 call: its locals and the queue reads so far

\* the state of the stand-alone functions and services
libs == <<zapCalls, pickle, resolver>>

\* the state of the single transfer, and the whole state
svars == <<chainId, pc, op, args, options, path, needsApproving, forkId, root,
           attempt, saveArg, retryFork, attemptErrors, dynVault, popts, calls, result,
           zapDetails, vals, outcome>>
vars == <<chainId, pc, op, args, options, path, needsApproving, forkId, root,
          attempt, saveArg, retryFork, attemptErrors, dynVault, popts, calls, result,
          zapDetails, vals, outcome, transfers, heap, clog, tokenCalls,
          zapCalls, pickle, resolver>>

\* a simulation request: the options it was given decide fork, save and root
Sim(svc, att, o, ret) ==
  [svc |-> svc, fork |-> o.forkId, save |-> o.save, root |-> o.root,
   gasPrice |-> o.gasPrice, gasLimit |-> o.gasLimit, arg |-> Undefined,
   att |-> att, ret |-> ret]

\* a collaborator call that carries no sandbox id, save flag or root
Request(svc, arg, ret) ==
  [svc |-> svc, fork |-> Undefined, save |-> "undefined", root |-> Undefined,
   gasPrice |-> Undefined, gasLimit |-> Undefined, arg |-> arg,
   att |-> attempt, ret |-> ret]

Plain(svc, ret) == Request(svc, Undefined, ret)

CallsOf(svc) == {i \in 1..Len(calls) : calls[i].svc = svc}

\* fresh identifiers handed out by the simulation backend
NewForkId == <<"fork", Cardinality(CallsOf("createFork")) + 1>>
SimulationSvcs == {"approvalSimulation", "simulateVaultInteraction", "makeSimulationRequest"}
NewSimulationId ==
  <<"sim", Cardinality({i \in 1..Len(calls) : calls[i].svc \in SimulationSvcs}) + 1>>

\* no call made yet; the PickleService as constructed, two hours into the clock
LibsInit ==
  /\ zapCalls = <<>>
  /\ pickle = [pc |-> "idle", now |-> 2 * HourInMilliseconds, ticks |-> 0,
               pickleJarUSDPrices |-> NoPrices, lastFetchedDate |-> 0,
               oneHourAgo |-> 0, jar |-> "none", calls |-> <<>>]
  /\ resolver = [pc |-> "idle", i |-> 0, strategyAddress |-> "undefined",
                 strategyAddresses |-> <<>>, reads |-> <<>>,
                 strategies |-> <<>>, result |-> "pending"]

SingleInit ==
  /\ chainId \in Chains
  /\ pc = "idle"
  /\ op = "none"
  /\ args = [sellToken |-> Undefined, vault |-> Undefined, underlying |-> Undefined,
             amount |-> 0, toToken |-> Undefined, given |-> Undefined]
  /\ options = [slippage |-> "undefined", forkId |-> Undefined, root |-> Undefined,
                save |-> "undefined", gasPrice |-> Undefined, gasLimit |-> Undefined]
  /\ path = "none"
  /\ needsApproving = FALSE
  /\ forkId = Undefined
  /\ root = Undefined
  /\ attempt = 0
  /\ saveArg = "undefined"
  /\ retryFork = Undefined
  /\ attemptErrors = <<>>
  /\ dynVault = NoVault
  /\ popts = Undefined
  /\ calls = <<>>
  /\ result = "pending"
  /\ zapDetails = NoZapDetails
  /\ vals = NoVals
  /\ outcome = Undefined

\* one transfer at a time: no second transfer is in flight
Init ==
  /\ SingleInit
  /\ transfers = <<>>
  /\ heap = <<>>
  /\ clog = {}
  /\ tokenCalls = <<>>
  /\ LibsInit

\* the transfer ends by raising `e` to the caller
Throw(e) == pc' = "failed" /\ result' = e

\* variant: a failure of the approval step is swallowed and the transfer goes
\* on to the wrapped producer
ApprovalFail_Swallowed(e) == pc' = "execute" /\ UNCHANGED result

\* variant: a failed approval-state query counts as an outstanding approval
ApprovalFail_ThenFork(e) == pc' = "createFork" /\ UNCHANGED result

\* a failure in the approval step (approval-state query, createFork, approval
\* transaction, approval simulation): the handler's promise rejects with it
ApprovalFail(e) == Throw(e)

CallerOptions ==
  [slippage : Slippages, forkId : CallerForkIds, root : CallerRoots,
   save : {"undefined"}, gasPrice : {Undefined}, gasLimit : {Undefined}]

getZapProtocol(vault) == IF vault = "pickleJar" THEN "PICKLE" ELSE "YEARN"

\* this.yearn.vaults.isUnderlyingToken(toVault, token.address)
isUnderlyingToken(token) == args.underlying = token

\* ------------------------------------------------- deposit, up to the wrapper
deposit ==
  /\ pc = "idle"
  /\ \E sellToken \in Tokens, amount \in 0..MaxAmount, toVault \in DepositVaults,
        underlying \in Tokens, o \in CallerOptions :
       /\ args' = [sellToken |-> sellToken, vault |-> toVault, underlying |-> underlying,
                   amount |-> amount, toToken |-> Undefined, given |-> o]
       /\ options' = o
  /\ op' = "deposit"
  /\ pc' = "getDynamic"
  /\ UNCHANGED <<chainId, transfers, heap, clog, tokenCalls, libs, zapDetails, vals, outcome, path, needsApproving, forkId, root, attempt, saveArg,
                 retryFork, attemptErrors, dynVault, popts, calls, result>>

getDynamic ==
  /\ pc = "getDynamic"
  /\ \/ /\ calls' = Append(calls, Plain("getDynamic", "error"))
        /\ Throw("Error")
        /\ UNCHANGED dynVault
     \/ \E v \in DynamicVaults :
          /\ calls' = Append(calls, Plain("getDynamic", "ok"))
          /\ dynVault' = v
          /\ pc' = "findByAddress"
          /\ UNCHANGED result
  /\ UNCHANGED <<chainId, transfers, heap, clog, tokenCalls, libs, zapDetails, vals, outcome, op, args, options, path, needsApproving, forkId, root,
                 attempt, saveArg, retryFork, attemptErrors, popts>>

\* variant: the Fantom family is dispatched to the zapper handler
DepositDispatch_FtmToZapper(tokenFound, token) ==
  LET d == getZapInDetails(chainId, token, dynVault.metadata) IN
  IF ~tokenFound THEN "Could not find the token by address"
  ELSE IF ~dynVault.found THEN "Could not get dynamic vault"
  ELSE IF d.isZapInSupported /\ d.zapInWith # "undefined"
  THEN IF d.zapInWith \in {"zapperZapIn", "ftmApeZap"} THEN "zap"
       ELSE "zapInWith not supported yet!"
  ELSE IF ~d.isZapInSupported /\ ~isUnderlyingToken(args.sellToken)
  THEN "Deposit is not supported"
  ELSE "direct"

\* variant: every route family is handed to the zapper's handler
DepositDispatch_AnyFamilyToZapper(tokenFound, token) ==
  LET d == getZapInDetails(chainId, token, dynVault.metadata) IN
  IF ~tokenFound THEN "Could not find the token by address"
  ELSE IF ~dynVault.found THEN "Could not get dynamic vault"
  ELSE IF d.isZapInSupported /\ d.zapInWith # "undefined" THEN "zap"
  ELSE IF ~d.isZapInSupported /\ ~isUnderlyingToken(args.sellToken)
  THEN "Deposit is not supported"
  ELSE "direct"

\* the rest of deposit once the token lookup has answered: the two guards,
\* getZapInDetails, and the choice of handler (handleZapInSimulationDeposit's
\* dispatch on zapInWith included)
DepositDispatch(tokenFound, token) ==
  LET d == getZapInDetails(chainId, token, dynVault.metadata) IN
  IF ~tokenFound THEN "Could not find the token by address"
  ELSE IF ~dynVault.found THEN "Could not get dynamic vault"
  ELSE IF d.isZapInSupported /\ d.zapInWith # "undefined"
  THEN IF d.zapInWith = "zapperZapIn" THEN "zap"
       ELSE IF d.zapInWith = "ftmApeZap" THEN "ftmApeZap not implemented yet!"
       ELSE "zapInWith not supported yet!"
  ELSE IF ~d.isZapInSupported /\ ~isUnderlyingToken(args.sellToken)
  THEN "Deposit is not supported"
  ELSE "direct"

findByAddress ==
  /\ pc = "findByAddress"
  /\ \/ /\ calls' = Append(calls, Plain("findByAddress", "error"))
        /\ Throw("Error")
        /\ UNCHANGED <<path, zapDetails>>
     \/ \E tokenFound \in BOOLEAN, token \in TokenValues :
          LET next == DepositDispatch(tokenFound, token) IN
          /\ calls' = Append(calls, Plain("findByAddress",
                                          IF tokenFound THEN "found" ELSE "undefined"))
          /\ zapDetails' = IF tokenFound /\ dynVault.found
                           THEN getZapInDetails(chainId, token, dynVault.metadata)
                           ELSE zapDetails
          /\ IF next = "zap"
             THEN pc' = "getUnderlyingToken" /\ path' = "zap" /\ UNCHANGED result
             ELSE IF next = "direct"
             THEN pc' = "depositNeedsApproving" /\ path' = "direct" /\ UNCHANGED result
             ELSE Throw(next) /\ UNCHANGED path
  /\ UNCHANGED <<chainId, transfers, heap, clog, tokenCalls, libs, vals, outcome, op, args, options, needsApproving, forkId, root,
                 attempt, saveArg, retryFork, attemptErrors, dynVault, popts>>

\* handleZapInSimulationDeposit: getUnderlyingToken, then
\* getZapperZapInSimulationArgs and the head of getZapperZapInApprovalData
getUnderlyingToken ==
  /\ pc = "getUnderlyingToken"
  /\ \/ \E e \in {"FAIL_TOKEN_FETCH", "NO_DECIMALS", "NO_PRICE_PER_SHARE"} :
          /\ calls' = Append(calls, Plain("getUnderlyingToken", "error"))
          /\ Throw(e)
          /\ UNCHANGED vals
     \/ /\ calls' = Append(calls, Plain("getUnderlyingToken", "ok"))
        /\ \E d \in DecimalsValues, p \in PricePerShareValues :
             vals' = [vals EXCEPT !.decimals = d, !.pricePerShare = p]
        /\ IF ~isEthereum(chainId) THEN Throw("Zapper unsupported for chainId")
           ELSE IF NoSlippage(options) THEN Throw("NO_SLIPPAGE")
           ELSE IF args.sellToken = EthAddress
           THEN pc' = "execute" /\ UNCHANGED result
           ELSE pc' = "zapInApprovalState" /\ UNCHANGED result
  /\ UNCHANGED <<chainId, transfers, heap, clog, tokenCalls, libs, zapDetails, outcome, op, args, options, path, needsApproving, forkId, root,
                 attempt, saveArg, retryFork, attemptErrors, dynVault, popts>>

\* withdraw and the earlier deposit assign the handler's forkId and the approval
\* id to the caller's options object, also when both are undefined
ClearedOptions ==
  IF op = "deposit" THEN options
  ELSE [options EXCEPT !.forkId = Undefined, !.root = Undefined]

zapInApprovalState ==
  /\ pc = "zapInApprovalState"
  /\ \/ /\ calls' = Append(calls, Plain("zapInApprovalState", "error"))
        /\ ApprovalFail(IF op = "deposit" THEN "ZAP_IN_APPROVAL_STATE" ELSE "approval state")
        /\ UNCHANGED <<needsApproving, options>>
     \/ \E isApproved \in BOOLEAN :
          /\ calls' = Append(calls, Plain("zapInApprovalState",
                                          IF isApproved THEN "approved" ELSE "notApproved"))
          /\ needsApproving' = ~isApproved
          /\ pc' = IF isApproved THEN "execute" ELSE "createFork"
          /\ options' = IF isApproved THEN ClearedOptions ELSE options
          /\ UNCHANGED result
  /\ UNCHANGED <<chainId, transfers, heap, clog, tokenCalls, libs, zapDetails, vals, outcome, op, args, path, forkId, root,
                 attempt, saveArg, retryFork, attemptErrors, dynVault, popts>>

\* getApprovalData -> depositNeedsApproving: the on-chain allowance read.  The
\* current deposit simulates the approval first and creates the fork afterwards;
\* the earlier deposit creates the fork first.
\* variant: an allowance equal to the amount counts as too small
lt_OrEqual(allowance, amount) == allowance <= amount

\* `toBN(allowance.toString()).lt(toBN(amount))`
lt(allowance, amount) == allowance < amount

\* variant: getApprovalData lacks its early return when no approval is needed
AfterAllowance_Always(needs) ==
  IF op = "deposit" THEN "approve" ELSE "createFork"

AfterAllowance(needs) ==
  IF ~needs THEN "execute"
  ELSE IF op = "deposit" THEN "approve" ELSE "createFork"

depositNeedsApproving ==
  /\ pc = "depositNeedsApproving"
  /\ \/ /\ calls' = Append(calls, Plain("allowance", "error"))
        /\ ApprovalFail(IF op = "deposit" THEN "Failed to get allowance from the contract"
                        ELSE "TypeError")
        /\ UNCHANGED <<needsApproving, options>>
     \/ \E allowance \in 0..MaxAmount :
          /\ calls' = Append(calls, Request("allowance", allowance, "ok"))
          /\ needsApproving' = lt(allowance, args.amount)
          /\ pc' = AfterAllowance(lt(allowance, args.amount))
          /\ options' = IF lt(allowance, args.amount) THEN options ELSE ClearedOptions
          /\ UNCHANGED result
  /\ UNCHANGED <<chainId, transfers, heap, clog, tokenCalls, libs, zapDetails, vals, outcome, op, args, path, forkId, root,
                 attempt, saveArg, retryFork, attemptErrors, dynVault, popts>>

\* ------------------------------------------------------------ approval step
\* simulationExecutor.createFork() ahead of the wrapper
\* variant: the approval step acquires a second fork before it goes on
AfterCreateFork_Again ==
  IF Cardinality({i \in 1..Len(calls) : calls[i].svc = "createFork"}) < 1
  THEN "createFork"
  ELSE IF path = "zap" THEN "approvalTransaction"
  ELSE IF op = "deposit" THEN "execute" ELSE "approve"

AfterCreateFork ==
  IF path = "zap" THEN "approvalTransaction"
  ELSE IF op = "deposit" THEN "execute" ELSE "approve"

createFork ==
  /\ pc = "createFork"
  /\ \/ /\ calls' = Append(calls, Plain("createFork", "error"))
        /\ ApprovalFail("BackendUnavailable")
        /\ UNCHANGED <<forkId, options>>
     \/ /\ calls' = Append(calls, Plain("createFork", NewForkId))
        /\ forkId' = NewForkId
        /\ options' = IF op = "deposit" THEN options
                      ELSE [options EXCEPT !.forkId = NewForkId]
        /\ pc' = AfterCreateFork
        /\ UNCHANGED result
  /\ UNCHANGED <<chainId, transfers, heap, clog, tokenCalls, libs, zapDetails, vals, outcome, op, args, path, needsApproving, root,
                 attempt, saveArg, retryFork, attemptErrors, dynVault, popts>>

\* zapper.zapInApprovalTransaction / zapper.zapOutApprovalTransaction
approvalTransaction ==
  /\ pc = "approvalTransaction"
  /\ \/ /\ calls' = Append(calls, Plain("approvalTransaction", "error"))
        /\ ApprovalFail(IF op = "deposit" THEN "ZAP_IN_APPROVAL"
                        ELSE IF op = "withdraw" THEN "ZAP_OUT_APPROVAL" ELSE "approval")
     \/ /\ calls' = Append(calls, Plain("approvalTransaction", "ok"))
        /\ pc' = "approve"
        /\ UNCHANGED result
  /\ UNCHANGED <<chainId, transfers, heap, clog, tokenCalls, libs, zapDetails, vals, outcome, op, args, options, path, needsApproving, forkId, root,
                 attempt, saveArg, retryFork, attemptErrors, dynVault, popts>>

\* variant: the approval simulation is submitted without `save: true`
ApprovalOptions_NoSave == options

\* the options object the approval simulation is submitted with:
\* `{ ...options, save: true }`; the earlier deposit sets options.save itself
ApprovalOptions == [options EXCEPT !.save = "true"]

\* approve / the .then of the zapper approval transaction: the approval call is
\* simulated and its simulation id becomes the root of the primary call
approve ==
  /\ pc = "approve"
  /\ \/ \E e \in {"SimulationReverted", "BackendUnavailable"} :
          /\ calls' = Append(calls, Sim("approvalSimulation", attempt, ApprovalOptions, "error"))
          /\ ApprovalFail(e)
          /\ options' = IF op = "depositV1" THEN ApprovalOptions ELSE options
          /\ UNCHANGED root
     \/ /\ calls' = Append(calls, Sim("approvalSimulation", attempt, ApprovalOptions,
                                      NewSimulationId))
        /\ root' = NewSimulationId
        /\ options' = IF op = "deposit" THEN options
                      ELSE IF op = "withdraw" THEN [options EXCEPT !.root = NewSimulationId]
                      ELSE [ApprovalOptions EXCEPT !.root = NewSimulationId]
        /\ pc' = IF op = "deposit" /\ path = "direct" THEN "createFork" ELSE "execute"
        /\ UNCHANGED result
  /\ UNCHANGED <<chainId, transfers, heap, clog, tokenCalls, libs, zapDetails, vals, outcome, op, args, path, needsApproving, forkId,
                 attempt, saveArg, retryFork, attemptErrors, dynVault, popts>>

\* ------------------------------------------------ withdraw, earlier deposit
withdraw ==
  /\ pc = "idle"
  /\ \E toToken \in Tokens, amount \in 0..MaxAmount, fromVault \in WithdrawVaults,
        underlying \in Tokens, o \in CallerOptions :
       /\ args' = [sellToken |-> Undefined, vault |-> fromVault, underlying |-> underlying,
                   amount |-> amount, toToken |-> toToken, given |-> o]
       /\ options' = o
  /\ op' = "withdraw"
  /\ pc' = "token"
  /\ UNCHANGED <<chainId, transfers, heap, clog, tokenCalls, libs, zapDetails, vals, outcome, path, needsApproving, forkId, root, attempt, saveArg,
                 retryFork, attemptErrors, dynVault, popts, calls, result>>

depositV1 ==
  /\ pc = "idle"
  /\ \E sellToken \in Tokens, amount \in 0..MaxAmount, toVault \in DepositVaults,
        underlying \in Tokens, o \in CallerOptions :
       /\ args' = [sellToken |-> sellToken, vault |-> toVault, underlying |-> underlying,
                   amount |-> amount, toToken |-> Undefined, given |-> o]
       /\ options' = o
  /\ op' = "depositV1"
  /\ pc' = "token"
  /\ UNCHANGED <<chainId, transfers, heap, clog, tokenCalls, libs, zapDetails, vals, outcome, path, needsApproving, forkId, root, attempt, saveArg,
                 retryFork, attemptErrors, dynVault, popts, calls, result>>

ErrNoSlippage ==
  IF op = "depositV1" THEN "slippage needs to be specified for a zap" ELSE "NO_SLIPPAGE"

\* the token whose equality with the vault's underlying decides the path, and
\* the address compared with EthAddress to skip the approval query
PathToken == IF op = "withdraw" THEN args.toToken ELSE args.sellToken
NativeCheck == IF op = "withdraw" THEN args.vault ELSE args.sellToken

\* vaultContract.token(), then the branch on isZapping up to the first await
token ==
  /\ pc = "token"
  /\ \/ /\ calls' = Append(calls, Plain("token", "error"))
        /\ Throw(IF op = "withdraw" THEN "Error" ELSE "failed to fetch token")
        /\ UNCHANGED <<path, options, needsApproving>>
     \/ /\ calls' = Append(calls, Plain("token", args.underlying))
        /\ IF args.underlying # PathToken
           THEN /\ path' = "zap"
                /\ IF NoSlippage(options)
                   THEN Throw(ErrNoSlippage) /\ UNCHANGED <<options, needsApproving>>
                   ELSE IF NativeCheck = EthAddress
                   THEN /\ needsApproving' = FALSE
                        /\ options' = ClearedOptions
                        /\ pc' = "execute"
                        /\ UNCHANGED result
                   ELSE /\ pc' = IF op = "withdraw" THEN "zapOutApprovalState"
                                 ELSE "zapInApprovalState"
                        /\ UNCHANGED <<options, needsApproving, result>>
           ELSE /\ path' = "direct"
                /\ pc' = IF op = "withdraw" THEN "execute" ELSE "depositNeedsApproving"
                /\ UNCHANGED <<options, needsApproving, result>>
  /\ UNCHANGED <<chainId, transfers, heap, clog, tokenCalls, libs, zapDetails, vals, outcome, op, args, forkId, root,
                 attempt, saveArg, retryFork, attemptErrors, dynVault, popts>>

zapOutApprovalState ==
  /\ pc = "zapOutApprovalState"
  /\ \/ /\ calls' = Append(calls, Plain("zapOutApprovalState", "error"))
        /\ ApprovalFail("ZAP_OUT_APPROVAL_STATE")
        /\ UNCHANGED <<needsApproving, options>>
     \/ \E isApproved \in BOOLEAN :
          /\ calls' = Append(calls, Plain("zapOutApprovalState",
                                          IF isApproved THEN "approved" ELSE "notApproved"))
          /\ needsApproving' = ~isApproved
          /\ pc' = IF isApproved THEN "execute" ELSE "createFork"
          /\ options' = IF isApproved THEN ClearedOptions ELSE options
          /\ UNCHANGED result
  /\ UNCHANGED <<chainId, transfers, heap, clog, tokenCalls, libs, zapDetails, vals, outcome, op, args, path, forkId, root,
                 attempt, saveArg, retryFork, attemptErrors, dynVault, popts>>

\* --------------------------------------------------------------- producer
\* the options object the producer reads and assigns: the copy built by the
\* closure for deposit, the caller's own object for withdraw and the earlier deposit
PO == IF op = "deposit" THEN popts ELSE options

SetPO(o) ==
  IF op = "deposit" THEN popts' = o /\ UNCHANGED options
  ELSE options' = o /\ UNCHANGED popts

\* variant: deposit's closure leaves the caller's forkId in place
ClosureOptions_CallerFork(save) ==
  IF op = "deposit"
  THEN [options EXCEPT !.save = save, !.root = root]
  ELSE [options EXCEPT !.save = save]

\* simulateFn / simulateWithdrawal / simulateDeposit called with `save`
ClosureOptions(save) ==
  IF op = "deposit"
  THEN [options EXCEPT !.forkId = forkId, !.save = save, !.root = root]
  ELSE [options EXCEPT !.save = save]

\* variant: a second failure raises the first attempt's error
ProducerFail_FirstError(e) ==
  /\ attemptErrors' = Append(attemptErrors, e)
  /\ IF attempt = 1
     THEN pc' = "retry" /\ UNCHANGED result
     ELSE Throw(attemptErrors[1])

\* the producer throws `e`: the wrapper catches a first-attempt failure and
\* lets a second-attempt failure through to the caller
ProducerFail(e) ==
  /\ attemptErrors' = Append(attemptErrors, e)
  /\ IF attempt = 1
     THEN pc' = "retry" /\ UNCHANGED result
     ELSE Throw(e)

\* zapIn's amountReceivedUsdc as numerator and denominator: the oracle's value
\* for a Yearn vault, price / 10^decimals * tokensReceived for a Pickle jar
amountReceivedUsdc(v) ==
  IF op # "withdraw" /\ getZapProtocol(args.vault) = "PICKLE"
  THEN <<v.picklePrice * v.tokensReceived, Pow10(v.decimals)>>
  ELSE <<v.targetUsdc, 1>>

\* variant: the rate is the value given over the value received
conversionRate_Inverted(v) ==
  Quotient(amountReceivedUsdc(v)[2] * v.sourceUsdc, amountReceivedUsdc(v)[1])

\* `amountReceivedUsdc.div(zapInAmountUsdc).toNumber()` and, in zapOut,
\* `toBN(zapOutAmountUsdc).div(toBN(soldAssetAmountUsdc)).toNumber()`
conversionRate(v) ==
  Quotient(amountReceivedUsdc(v)[1], amountReceivedUsdc(v)[2] * v.sourceUsdc)

\* variant: the direct path derives its rate from the oracle's answer
directConversionRate_FromOracle(v) == Quotient(v.targetUsdc, args.amount)

\* `conversionRate: 1` of directDeposit and directWithdraw
directConversionRate(v) == <<1, 1>>

\* the object literal returned by directDeposit, directWithdraw, zapIn and zapOut
TransactionOutcome(v) ==
  IF path = "direct" /\ op # "withdraw"
  THEN [sourceTokenAddress |-> args.sellToken,
        sourceTokenAmount |-> args.amount,
        targetTokenAddress |-> args.vault,
        targetTokenAmount |-> v.tokensReceived,
        targetTokenAmountUsdc |-> v.targetUsdc,
        targetUnderlyingTokenAddress |-> args.vault,
        targetUnderlyingTokenAmount |->
          targetUnderlyingTokensReceived(v.tokensReceived, v.decimals, v.pricePerShare),
        conversionRate |-> directConversionRate(v),
        slippage |-> <<0, 1>>]
  ELSE IF path = "direct"
  THEN [sourceTokenAddress |-> args.vault,
        sourceTokenAmount |-> args.amount,
        targetTokenAddress |-> args.toToken,
        targetTokenAmount |-> v.tokensReceived,
        targetTokenAmountUsdc |-> v.targetUsdc,
        targetUnderlyingTokenAddress |-> args.toToken,
        targetUnderlyingTokenAmount |-> v.tokensReceived,
        conversionRate |-> directConversionRate(v),
        slippage |-> <<0, 1>>]
  ELSE IF op # "withdraw"
  THEN [sourceTokenAddress |-> args.sellToken,
        sourceTokenAmount |-> args.amount,
        targetTokenAddress |-> args.vault,
        targetTokenAmount |-> v.tokensReceived,
        targetTokenAmountUsdc |->
          toFixed0(amountReceivedUsdc(v)[1], amountReceivedUsdc(v)[2]),
        targetUnderlyingTokenAddress |-> args.underlying,
        targetUnderlyingTokenAmount |->
          targetUnderlyingTokensReceived(v.tokensReceived, v.decimals, v.pricePerShare),
        conversionRate |-> conversionRate(v),
        slippage |-> OneMinus(conversionRate(v))]
  ELSE [sourceTokenAddress |-> args.vault,
        sourceTokenAmount |-> args.amount,
        targetTokenAddress |-> args.toToken,
        targetTokenAmount |-> v.tokensReceived,
        targetTokenAmountUsdc |-> v.targetUsdc,
        targetUnderlyingTokenAddress |-> args.underlying,
        targetUnderlyingTokenAmount |-> v.tokensReceived,
        conversionRate |-> conversionRate(v),
        slippage |-> OneMinus(conversionRate(v))]

\* the producer goes on to its next await, or returns its TransactionOutcome
\* through the wrapper to the caller
\* variant: a failed lookup ends the transfer with a best-effort outcome
Rethrow_BestEffort(e) ==
  /\ UNCHANGED attemptErrors
  /\ pc' = "done"
  /\ result' = "outcome"
  /\ outcome' = [sourceTokenAddress |-> IF op = "withdraw" THEN args.vault
                                        ELSE args.sellToken,
                 sourceTokenAmount |-> args.amount,
                 targetTokenAddress |-> IF op = "withdraw" THEN args.toToken
                                        ELSE args.vault,
                 targetTokenAmount |-> 0,
                 targetTokenAmountUsdc |-> 0,
                 targetUnderlyingTokenAddress |-> Undefined,
                 targetUnderlyingTokenAmount |-> 0,
                 conversionRate |-> Undefined,
                 slippage |-> Undefined]

\* `.catch(() => { throw new ...Error(...) })`: the producer throws the typed
\* error in place of the collaborator's and returns nothing
Rethrow(e) == ProducerFail(e) /\ UNCHANGED outcome

Goto(next) ==
  IF next = "return"
  THEN pc' = "done" /\ result' = "outcome" /\ outcome' = TransactionOutcome(vals')
  ELSE pc' = next /\ UNCHANGED <<result, outcome>>

\* variant: the routed producer submits the primary call without a quote
StartProducer_NoQuote(save) ==
  /\ saveArg' = save
  /\ SetPO(ClosureOptions(save))
  /\ vals' = IF op = "deposit" /\ path = "zap"
             THEN [NoVals EXCEPT !.decimals = vals.decimals,
                                 !.pricePerShare = vals.pricePerShare]
             ELSE NoVals
  /\ pc' = "simulate"

\* variant: the quote is requested ahead of the wrapper's unit, once
StartProducer_QuoteOnce(save) ==
  /\ saveArg' = save
  /\ SetPO(ClosureOptions(save))
  /\ vals' = IF op = "deposit" /\ path = "zap"
             THEN [NoVals EXCEPT !.decimals = vals.decimals,
                                 !.pricePerShare = vals.pricePerShare]
             ELSE NoVals
  /\ pc' = IF path = "zap" /\ attempt = 0 THEN "quote" ELSE "simulate"

\* a producer invocation starts with fresh locals; the routed deposit's closure
\* has captured the underlyingToken read before the approval step
StartProducer(save) ==
  /\ saveArg' = save
  /\ SetPO(ClosureOptions(save))
  /\ vals' = IF op = "deposit" /\ path = "zap"
             THEN [NoVals EXCEPT !.decimals = vals.decimals,
                                 !.pricePerShare = vals.pricePerShare]
             ELSE NoVals
  /\ pc' = IF path = "zap" THEN "quote" ELSE "simulate"

\* variant: the gas estimate is always asked for
skipGasEstimate_Never == FALSE

\* `skipGasEstimate: needsApproving`, and zapOut's sixth argument
skipGasEstimate == needsApproving

QuoteGasPrice ==
  IF op = "withdraw" \/ PO.gasPrice = Undefined THEN <<"0">> ELSE PO.gasPrice

\* zapper.zapIn / zapper.zapOut: the execution quote of the routed call
quote ==
  /\ pc = "quote"
  /\ LET arg == [amount |-> args.amount, gasPrice |-> QuoteGasPrice,
                 slippage |-> PO.slippage, skipGasEstimate |-> skipGasEstimate]
         svc == IF op = "withdraw" THEN "zapOut" ELSE "zapIn"
     IN
     \/ /\ calls' = Append(calls, Request(svc, arg, "error"))
        /\ Rethrow(IF op = "deposit" THEN "ZAP_IN"
                   ELSE IF op = "withdraw" THEN "ZAP_OUT" ELSE "zap in")
        /\ UNCHANGED <<options, popts>>
     \/ /\ calls' = Append(calls, Request(svc, arg, "ok"))
        /\ SetPO([PO EXCEPT
                    !.gasPrice = IF op # "withdraw" /\ @ = Undefined
                                 THEN <<"quoteGasPrice">> ELSE @,
                    !.gasLimit = IF skipGasEstimate THEN @ ELSE <<"quoteGas">>])
        /\ pc' = "simulate"
        /\ UNCHANGED <<result, attemptErrors, outcome>>
  /\ UNCHANGED <<chainId, transfers, heap, clog, tokenCalls, libs, zapDetails, vals, op, args, path, needsApproving, forkId, root,
                 attempt, saveArg, retryFork, dynVault>>

\* variant: every routed deposit asks the oracle for the received value
AfterSimulate_OracleOnly ==
  IF path = "direct" THEN "oracleTarget"
  ELSE IF op = "depositV1" THEN "pricePerShare"
  ELSE "oracleTarget"

AfterSimulate ==
  IF path = "direct" THEN "oracleTarget"
  ELSE IF op = "depositV1" THEN "pricePerShare"
  ELSE IF op = "deposit" /\ getZapProtocol(args.vault) = "PICKLE" THEN "picklePrice"
  ELSE "oracleTarget"

AfterPricePerShare ==
  IF path = "direct" THEN "return"
  ELSE IF getZapProtocol(args.vault) = "PICKLE" THEN "picklePrice"
  ELSE "oracleTarget"

\* variant: the direct withdraw never resumes after the oracle has answered
AfterTarget_Pending ==
  IF path = "zap" THEN "oracleSource"
  ELSE IF op = "withdraw" THEN "awaiting"
  ELSE "pricePerShare"

AfterTarget ==
  IF path = "zap" THEN "oracleSource"
  ELSE IF op = "withdraw" THEN "return"
  ELSE "pricePerShare"

PrimarySvc ==
  IF op = "withdraw" /\ path = "zap" /\ args.toToken = EthAddress
  THEN "makeSimulationRequest" ELSE "simulateVaultInteraction"

\* the primary simulated call, submitted with the producer's options
simulate ==
  /\ pc = "simulate"
  /\ \/ \E e \in {"SimulationReverted", "BackendUnavailable"} :
          /\ calls' = Append(calls, Sim(PrimarySvc, attempt, PO, "error"))
          /\ ProducerFail(e)
          /\ UNCHANGED <<vals, outcome>>
     \/ /\ calls' = Append(calls, Sim(PrimarySvc, attempt, PO, NewSimulationId))
        /\ \E tokensReceived \in TokensReceivedValues :
             vals' = [vals EXCEPT !.tokensReceived = tokensReceived]
        /\ Goto(AfterSimulate)
        /\ UNCHANGED attemptErrors
  /\ UNCHANGED <<chainId, transfers, heap, clog, tokenCalls, libs, zapDetails, op, args, options, path, needsApproving, forkId, root,
                 attempt, saveArg, retryFork, dynVault, popts>>

\* oracle.getNormalizedValueUsdc(target token, tokensReceived)
oracleTarget ==
  /\ pc = "oracleTarget"
  /\ \/ /\ calls' = Append(calls, Plain("getNormalizedValueUsdc", "error"))
        /\ Rethrow(IF op = "depositV1" THEN "PriceFetchingError"
                   ELSE "FETCHING_PRICE_ORACLE")
        /\ UNCHANGED vals
     \/ /\ calls' = Append(calls, Plain("getNormalizedValueUsdc", "ok"))
        /\ \E usdc \in UsdcValues : vals' = [vals EXCEPT !.targetUsdc = usdc]
        /\ Goto(AfterTarget)
        /\ UNCHANGED attemptErrors
  /\ UNCHANGED <<chainId, transfers, heap, clog, tokenCalls, libs, zapDetails, op, args, options, path, needsApproving, forkId, root,
                 attempt, saveArg, retryFork, dynVault, popts>>

\* pickle.getPriceUsdc(toVault)
picklePrice ==
  /\ pc = "picklePrice"
  /\ \/ /\ calls' = Append(calls, Plain("getPriceUsdc", "error"))
        /\ Rethrow(IF op = "depositV1" THEN "PriceFetchingError"
                   ELSE "FETCHING_PRICE_PICKLE")
        /\ UNCHANGED vals
     \/ /\ calls' = Append(calls, Plain("getPriceUsdc", "ok"))
        /\ \E usdc \in UsdcValues : vals' = [vals EXCEPT !.picklePrice = usdc]
        /\ Goto("oracleSource")
        /\ UNCHANGED attemptErrors
  /\ UNCHANGED <<chainId, transfers, heap, clog, tokenCalls, libs, zapDetails, op, args, options, path, needsApproving, forkId, root,
                 attempt, saveArg, retryFork, dynVault, popts>>

\* vaultContract.decimals() and vaultContract.pricePerShare(), awaited jointly
pricePerShare ==
  /\ pc = "pricePerShare"
  /\ \/ \E e \in IF op = "deposit" THEN {"NO_DECIMALS", "NO_PRICE_PER_SHARE"}
                 ELSE {"EthersError"} :
          /\ calls' = Append(calls, Plain("pricePerShare", "error"))
          /\ Rethrow(e)
          /\ UNCHANGED vals
     \/ /\ calls' = Append(calls, Plain("pricePerShare", "ok"))
        /\ \E d \in DecimalsValues, p \in PricePerShareValues :
             vals' = [vals EXCEPT !.decimals = d, !.pricePerShare = p]
        /\ Goto(AfterPricePerShare)
        /\ UNCHANGED attemptErrors
  /\ UNCHANGED <<chainId, transfers, heap, clog, tokenCalls, libs, zapDetails, op, args, options, path, needsApproving, forkId, root,
                 attempt, saveArg, retryFork, dynVault, popts>>

\* oracle.getNormalizedValueUsdc(source token, amount) of a routed transfer
oracleSource ==
  /\ pc = "oracleSource"
  /\ \/ /\ calls' = Append(calls, Plain("getNormalizedValueUsdcSource", "error"))
        /\ Rethrow(IF op = "depositV1" THEN "PriceFetchingError"
                   ELSE "FETCHING_PRICE_ORACLE")
        /\ UNCHANGED vals
     \/ /\ calls' = Append(calls, Plain("getNormalizedValueUsdcSource", "ok"))
        /\ \E usdc \in UsdcValues : vals' = [vals EXCEPT !.sourceUsdc = usdc]
        /\ Goto("return")
        /\ UNCHANGED attemptErrors
  /\ UNCHANGED <<chainId, transfers, heap, clog, tokenCalls, libs, zapDetails, op, args, options, path, needsApproving, forkId, root,
                 attempt, saveArg, retryFork, dynVault, popts>>

\* ---------------------------------------------------------------- wrapper
\* SimulationExecutor.executeSimulationWithReSimulationOnFailure(simulate, forkId):
\* the first attempt, simulate(false)
executeSimulationWithReSimulationOnFailure ==
  /\ pc = "execute"
  /\ attempt' = 1
  /\ StartProducer("false")
  /\ UNCHANGED <<chainId, transfers, heap, clog, tokenCalls, libs, zapDetails, outcome, op, args, path, needsApproving, forkId, root,
                 retryFork, attemptErrors, dynVault, calls, result>>

\* variant: the second attempt runs without a new sandbox being allocated
reSimulate_NoFork ==
  /\ pc = "retry"
  /\ attempt' = 2
  /\ StartProducer("false")
  /\ UNCHANGED <<chainId, transfers, heap, clog, tokenCalls, libs, zapDetails, outcome, op, args, path, needsApproving, forkId, root,
                 retryFork, attemptErrors, dynVault, calls, result>>

\* the first attempt failed: one new sandbox, then simulate(false) once more
reSimulate ==
  /\ pc = "retry"
  /\ \/ /\ calls' = Append(calls, Plain("createFork", "error"))
        /\ Throw("BackendUnavailable")
        /\ UNCHANGED <<attempt, retryFork, saveArg, options, popts, vals>>
     \/ /\ calls' = Append(calls, Plain("createFork", NewForkId))
        /\ retryFork' = NewForkId
        /\ attempt' = 2
        /\ StartProducer("false")
        /\ UNCHANGED result
  /\ UNCHANGED <<chainId, transfers, heap, clog, tokenCalls, libs, zapDetails, outcome, op, args, path, needsApproving, forkId, root,
                 attemptErrors, dynVault>>

Next ==
  \/ deposit
  \/ getDynamic
  \/ findByAddress
  \/ getUnderlyingToken
  \/ zapInApprovalState
  \/ depositNeedsApproving
  \/ createFork
  \/ approvalTransaction
  \/ approve
  \/ withdraw
  \/ depositV1
  \/ token
  \/ zapOutApprovalState
  \/ quote
  \/ simulate
  \/ oracleTarget
  \/ picklePrice
  \/ pricePerShare
  \/ oracleSource
  \/ executeSimulationWithReSimulationOnFailure
  \/ reSimulate

Spec == Init /\ [][Next]_vars

\* ------------------------------------------------------------- properties
PrimaryCalls ==
  {i \in 1..Len(calls) :
     calls[i].svc \in {"simulateVaultInteraction", "makeSimulationRequest"}}
ApprovalCalls == CallsOf("approvalSimulation")
\* createFork calls of the approval step (before the wrapper runs) and of the retry
ApprovalForks == {i \in CallsOf("createFork") : calls[i].att = 0}
WrapperForks == {i \in CallsOf("createFork") : calls[i].att >= 1}
MissingSlippageErrors == {"NO_SLIPPAGE", "slippage needs to be specified for a zap"}
\* the vault/token metadata reads that classify the path
ClassifyingReads == {"getDynamic", "findByAddress", "getUnderlyingToken", "token"}

\* C1: the wrapper invokes the producer at most twice; when the first and the
\* second attempt both fail, the transfer has failed with the second attempt's
\* error and there is no third attempt.
C1_AtMostTwoAttempts ==
  /\ attempt \in 0..2
  /\ Len(attemptErrors) <= 2
  /\ \A i \in 1..Len(calls) : calls[i].att \in 0..2
  /\ Len(attemptErrors) = 2 => pc = "failed" /\ result = attemptErrors[2]

C1_Witness ==
  /\ pc = "failed" /\ attempt = 2 /\ Len(attemptErrors) = 2
  /\ attemptErrors[1] # attemptErrors[2]

\* C2: when the first attempt failed and the transfer completed, the caller got
\* the second attempt's outcome (not the first failure) and the wrapper
\* allocated exactly one sandbox.
C2_SecondAttemptOutcomeReturned ==
  /\ (pc = "done" /\ Len(attemptErrors) = 1) =>
        /\ result = "outcome"
        /\ attempt = 2
        /\ Cardinality(WrapperForks) = 1
  /\ attempt = 2 => Cardinality(WrapperForks) = 1 /\ Len(attemptErrors) >= 1

C2_Witness == pc = "done" /\ Len(attemptErrors) = 1 /\ result = "outcome"

\* C3: the primary simulated call of the second attempt carries the id of the
\* sandbox allocated for the retry and is submitted with save=false.
C3_RetryUsesNewSandbox ==
  \A j \in PrimaryCalls :
    calls[j].att = 2 => calls[j].fork = retryFork /\ calls[j].save = "false"

\* C4: the first attempt's primary call is submitted with save=false and carries
\* the forkId handed to the wrapper when there is one; when the first attempt
\* succeeds the wrapper allocates no sandbox and does not run the producer again.
C4_FirstAttempt ==
  /\ \A j \in PrimaryCalls :
       calls[j].att = 1 =>
         /\ calls[j].save = "false"
         /\ forkId # Undefined => calls[j].fork = forkId
  /\ (pc = "done" /\ attemptErrors = <<>>) => attempt = 1 /\ WrapperForks = {}

C4_Witness ==
  /\ pc = "done" /\ attempt = 1 /\ forkId # Undefined
  /\ \E j \in PrimaryCalls : calls[j].fork = forkId

\* C5: the approval call is simulated with save=true, and the simulation id it
\* returned is the root of every primary call of the transfer.
C5_ApprovalSavedAndChained ==
  /\ \A i \in ApprovalCalls : calls[i].save = "true"
  /\ \A i \in ApprovalCalls, j \in PrimaryCalls : calls[j].root = calls[i].ret

C5_Witness ==
  /\ needsApproving
  /\ \E i \in ApprovalCalls, j \in PrimaryCalls : calls[j].root = calls[i].ret

\* C6: the approval simulation and the first attempt's primary call carry the
\* same sandbox id, the one acquired for the approval step.
C6_ApprovalAndPrimarySameSandbox ==
  \A i \in ApprovalCalls, j \in PrimaryCalls :
    calls[j].att = 1 => calls[i].fork = calls[j].fork /\ calls[i].fork = forkId

\* C7: with no approval outstanding and no failed attempt, createFork is never
\* called during the transfer.
C7_NoApprovalNoRetryNoSandbox ==
  (~needsApproving /\ attemptErrors = <<>>) => CallsOf("createFork") = {}

C7_Witness ==
  pc = "done" /\ ~needsApproving /\ attempt = 1 /\ CallsOf("createFork") = {}

\* C8: createFork is called at most once by the approval step and at most once
\* by the retry, so at most twice per transfer.
C8_AtMostTwoSandboxes ==
  /\ Cardinality(ApprovalForks) <= 1
  /\ Cardinality(WrapperForks) <= 1
  /\ Cardinality(CallsOf("createFork")) <= 2

C8_Witness == pc = "done" /\ Cardinality(CallsOf("createFork")) = 2

C10_NativeDepositNoApprovalQuery ==
  (op \in {"deposit", "depositV1"} /\ args.sellToken = EthAddress) =>
     /\ \A i \in 1..Len(calls) :
          calls[i].svc \notin {"zapInApprovalState", "allowance", "approvalSimulation"}
     /\ ApprovalForks = {}

\* ------------------------------------------------------ outcome properties
IsRate(q) == q[2] # 0
\* the USD value of the destination amount, as numerator and denominator, from
\* what the oracle (or the Pickle price service) answered to the final attempt
DestinationUsd ==
  IF op # "withdraw" /\ getZapProtocol(args.vault) = "PICKLE"
  THEN <<vals.picklePrice * vals.tokensReceived, Pow10(vals.decimals)>>
  ELSE <<outcome.targetTokenAmountUsdc, 1>>
SourceUsd == vals.sourceUsdc

C13_RateAboveOneNotClamped ==
  (pc = "done" /\ path = "zap"
     /\ DestinationUsd[1] > DestinationUsd[2] * SourceUsd) =>
     IF SourceUsd = 0
     THEN outcome.conversionRate = Infinity /\ outcome.slippage = NegInfinity
     ELSE /\ outcome.conversionRate[1] > outcome.conversionRate[2]
          /\ outcome.slippage[1] < 0 /\ outcome.slippage[2] > 0

C13_Witness ==
  /\ pc = "done" /\ path = "zap" /\ SourceUsd = 1
  /\ outcome.targetTokenAmountUsdc = 2
  /\ outcome.conversionRate = <<2, 1>> /\ outcome.slippage = <<-1, 1>>

\* C14: the underlying amount of a direct deposit is the floor of destination
\* amount x pricePerShare / 10^decimals (950 shares at 1.05 give 997).
C14_UnderlyingAmountIsFloor ==
  (pc = "done" /\ path = "direct" /\ op # "withdraw") =>
     /\ outcome.targetTokenAmount = vals.tokensReceived
     /\ outcome.targetUnderlyingTokenAmount =
          (vals.tokensReceived * vals.pricePerShare) \div Pow10(vals.decimals)

OutcomeFields ==
  {"sourceTokenAddress", "sourceTokenAmount", "targetTokenAddress",
   "targetTokenAmount", "targetTokenAmountUsdc", "targetUnderlyingTokenAddress",
   "targetUnderlyingTokenAmount", "conversionRate", "slippage"}

C16_DirectIffUnderlying ==
  path # "none" => ((path = "direct") <=> (args.underlying = PathToken))

\* the route families handleZapInSimulationDeposit has a handler for
HandledFamilies == {"zapperZapIn"}
UnsupportedRouteErrors ==
  {"ftmApeZap not implemented yet!", "zapInWith not supported yet!"}

\* C17 as stated: a deposit into a vault that declares a route family without
\* a handler never returns an outcome.
C17_UnhandledFamilyNoOutcome ==
  (op = "deposit" /\ dynVault.found /\ ~dynVault.metadata.isNull
     /\ dynVault.metadata.zapInWith \notin HandledFamilies \cup {"undefined"}) =>
     pc # "done"

\* C17 as amended: a deposit that the route resolution sends to a family
\* without a handler (the source token is supported for that family) fails
\* with the unsupported-route error right after the two metadata lookups and
\* returns no outcome; no other deposit fails with that error.
C17_RoutedUnhandledFamilyFails ==
  /\ (op = "deposit" /\ zapDetails.isZapInSupported
        /\ zapDetails.zapInWith \notin HandledFamilies) =>
        /\ pc = "failed" /\ result \in UnsupportedRouteErrors
        /\ DOMAIN outcome = {}
        /\ \A i \in 1..Len(calls) : calls[i].svc \in {"getDynamic", "findByAddress"}
  /\ result \in UnsupportedRouteErrors =>
        /\ op = "deposit" /\ zapDetails.isZapInSupported
        /\ zapDetails.zapInWith \notin HandledFamilies

C17_Witness ==
  /\ op = "deposit" /\ chainId = "ethereum" /\ pc = "failed"
  /\ zapDetails = [isZapInSupported |-> TRUE, zapInWith |-> "zapperZapOut"]
  /\ result = "zapInWith not supported yet!"

\* C18: with no approval outstanding, the first attempt's primary call of
\* deposit and withdraw carries the forkId and the root the caller supplied.
C18_CallerSandboxAndRootHonoured ==
  \A j \in PrimaryCalls :
    (/\ op \in {"deposit", "withdraw"} /\ calls[j].att = 1 /\ ~needsApproving
     /\ args.given.forkId # Undefined /\ args.given.root # Undefined) =>
       calls[j].fork = args.given.forkId /\ calls[j].root = args.given.root

\* the collaborator calls of the approval step
ApprovalStepSvcs ==
  {"zapInApprovalState", "zapOutApprovalState", "allowance", "createFork",
   "approvalTransaction", "approvalSimulation"}
FailedCalls == {i \in 1..Len(calls) : calls[i].ret = "error"}

\* C20: a failed approval-state query, sandbox creation or approval simulation
\* ends the transfer with an error at once, with no further call; a completed
\* transfer hides at most one failure, a failure of the producer's first
\* attempt.
C20_ApprovalFailuresSurfaceUnretried ==
  /\ \A i \in FailedCalls :
       calls[i].svc \in ApprovalStepSvcs =>
         /\ i = Len(calls)
         /\ pc = "failed"
         /\ result \notin {"pending", "outcome"}
  /\ pc = "done" =>
       /\ Cardinality(FailedCalls) = Len(attemptErrors)
       /\ Cardinality(FailedCalls) <= 1
       /\ \A i \in FailedCalls :
            calls[i].att = 1 /\ attempt = 2 /\ calls[i].svc \notin ApprovalStepSvcs

C20_Witness ==
  /\ pc = "failed" /\ attempt = 0 /\ needsApproving
  /\ calls[Len(calls)].svc = "approvalSimulation"
  /\ calls[Len(calls)].ret = "error"
  /\ result = "SimulationReverted"

\* --------------------------------------------------------- error kinds
\* the error each step's .catch handler throws in place of the collaborator's:
\* the error code of the current handlers, the message of the earlier deposit
ApprovalQueryFailed == {"ZAP_IN_APPROVAL_STATE", "ZAP_OUT_APPROVAL_STATE", "approval state"}
ApprovalSimulationFailed == {"ZAP_IN_APPROVAL", "ZAP_OUT_APPROVAL", "approval"}
QuoteGenerationFailed == {"ZAP_IN", "ZAP_OUT", "zap in"}
PrimaryOracleLookupFailed == {"FETCHING_PRICE_ORACLE"}
PartnerPriceLookupFailed == {"FETCHING_PRICE_PICKLE"}
\* what reaches the caller when a rejection passes through no .catch handler:
\* the collaborator's own error, or the TypeError of `result.toString()`
UntypedErrors == {"Error", "TypeError"}

\* the error kind the failure of a collaborator call is to be raised as
KindOfStep(svc) ==
  IF svc \in {"zapInApprovalState", "zapOutApprovalState", "allowance"}
  THEN ApprovalQueryFailed
  ELSE IF svc = "approvalSimulation" THEN ApprovalSimulationFailed
  ELSE IF svc \in {"zapIn", "zapOut"} THEN QuoteGenerationFailed
  ELSE IF svc \in {"getNormalizedValueUsdc", "getNormalizedValueUsdcSource"}
  THEN PrimaryOracleLookupFailed
  ELSE IF svc = "getPriceUsdc" THEN PartnerPriceLookupFailed
  ELSE {"Error", "TypeError", "failed to fetch token", "FAIL_TOKEN_FETCH",
        "NO_DECIMALS", "NO_PRICE_PER_SHARE", "EthersError", "ZAP_IN_APPROVAL",
        "ZAP_OUT_APPROVAL", "approval", "SimulationReverted", "BackendUnavailable"}
       \ UntypedErrors

\* C21: when the transfer failed on a collaborator call, the error raised to
\* the caller is the typed kind of that call's step (approval query, approval
\* simulation, quote, oracle lookup, partner price lookup) and is never an
\* untyped error.
C21_FailuresReachCallerTyped ==
  (pc = "failed" /\ calls # <<>> /\ calls[Len(calls)].ret = "error") =>
     /\ result \in KindOfStep(calls[Len(calls)].svc)
     /\ result \notin UntypedErrors

QuoteCalls == CallsOf("zapIn") \cup CallsOf("zapOut")

\* what the primary simulated call is submitted with, the sandbox id apart
PrimaryParams(c) ==
  [svc |-> c.svc, save |-> c.save, root |-> c.root,
   gasPrice |-> c.gasPrice, gasLimit |-> c.gasLimit]

\* C22: the second attempt's quote request carries the same amount, gas price,
\* slippage and skip-gas-estimate flag as the first attempt's, and its primary
\* call the same parameters, the sandbox id apart.
C22_AttemptsIssueSameRequests ==
  /\ \A i \in QuoteCalls, j \in QuoteCalls :
       (calls[i].att = 1 /\ calls[j].att = 2) => calls[i].arg = calls[j].arg
  /\ \A i \in PrimaryCalls, j \in PrimaryCalls :
       (calls[i].att = 1 /\ calls[j].att = 2) =>
          PrimaryParams(calls[i]) = PrimaryParams(calls[j])

\* the calls of the approval step ahead of the wrapper: the approval-state
\* query, the fork, the approval transaction and its simulation
ApprovalStateSvcs == {"zapInApprovalState", "zapOutApprovalState"}
ApprovalStepCalls ==
  {i \in 1..Len(calls) : calls[i].svc \in ApprovalStepSvcs /\ calls[i].att = 0}

\* C25: on the routed path every quote request comes after the approval step
\* has completed (the approval-state query has answered unless the asset is
\* the native one, and the approval has been simulated when it is outstanding),
\* and every primary simulation comes right after the quote of its own attempt
\* has answered.
C25_ApprovalThenQuoteThenSimulation ==
  /\ \A q \in QuoteCalls :
       /\ path = "zap"
       /\ \A i \in ApprovalStepCalls : i < q /\ calls[i].ret # "error"
       /\ (IF op = "withdraw" THEN args.vault ELSE args.sellToken) # EthAddress =>
            \E i \in ApprovalStepCalls : calls[i].svc \in ApprovalStateSvcs
       /\ needsApproving =>
            \E i \in ApprovalCalls : i < q /\ calls[i].ret = root
  /\ path = "zap" =>
       \A p \in PrimaryCalls :
         /\ p > 1
         /\ (p - 1) \in QuoteCalls
         /\ calls[p - 1].att = calls[p].att
         /\ calls[p - 1].ret = "ok"

C25_Witness ==
  /\ pc = "done" /\ path = "zap" /\ needsApproving /\ attempt = 2
  /\ Cardinality(QuoteCalls) = 2 /\ Cardinality(PrimaryCalls) = 2

\* C26: whenever an approval call is simulated, a fork has been created for the
\* approval step before that simulation request is sent.
C26_SandboxBeforeApprovalSimulation ==
  \A a \in ApprovalCalls :
    \E f \in ApprovalForks : f < a /\ calls[f].ret = forkId

\* C27: a quote is requested with skipGasEstimate set exactly when an approval
\* call has been simulated earlier in the transfer.
C27_SkipGasEstimateIffApprovalSimulated ==
  \A q \in QuoteCalls :
    calls[q].arg.skipGasEstimate <=> (\E a \in ApprovalCalls : a < q)

C27_Witness ==
  /\ pc = "done" /\ path = "zap" /\ op = "withdraw"
  /\ \E q \in QuoteCalls : calls[q].arg.skipGasEstimate /\ calls[q].att = 2
  /\ ApprovalCalls # {}

\* the integers next to n / d: a quotient is reported as a whole number
Roundings(n, d) == {n \div d, (n + d - 1) \div d}

\* the price per share and the decimals of the vault of a finished direct
\* transfer: the ones read from the vault contract by the deposit; the
\* withdraw reads neither, so the vault may have any of them
VaultPricePerShare ==
  IF op = "withdraw" THEN PricePerShareValues ELSE {vals.pricePerShare}
VaultDecimals ==
  IF op = "withdraw" THEN DecimalsValues ELSE {vals.decimals}

\* C29: on the direct path, deposit or withdraw, the underlying amount of the
\* outcome is the destination amount / 10^decimals x the vault's price per
\* share (to the whole number).
C29_DirectUnderlyingAmountScaled ==
  (pc = "done" /\ path = "direct") =>
     \A p \in VaultPricePerShare, d \in VaultDecimals :
        outcome.targetUnderlyingTokenAmount
          \in Roundings(outcome.targetTokenAmount * p, Pow10(d))

\* the successful answers of a price source so far in the call log
Answered(svc) == {i \in CallsOf(svc) : calls[i].ret = "ok"}

\* C30: in a routed deposit the destination USD value comes from the oracle
\* for a Yearn vault and from the Pickle spot price for a Pickle jar, the
\* source USD value comes from the oracle in both, and the price source of the
\* other family is never called.
C30_DestinationUsdByRouteFamily ==
  (op \in {"deposit", "depositV1"} /\ path = "zap") =>
     /\ getZapProtocol(args.vault) = "YEARN" =>
          /\ CallsOf("getPriceUsdc") = {}
          /\ pc = "done" =>
               /\ Answered("getNormalizedValueUsdc") # {}
               /\ outcome.targetTokenAmountUsdc = vals.targetUsdc
     /\ getZapProtocol(args.vault) = "PICKLE" =>
          /\ CallsOf("getNormalizedValueUsdc") = {}
          /\ pc = "done" =>
               /\ Answered("getPriceUsdc") # {}
               /\ outcome.targetTokenAmountUsdc =
                    toFixed0(vals.picklePrice * vals.tokensReceived,
                             Pow10(vals.decimals))
     /\ pc = "done" =>
          /\ Answered("getNormalizedValueUsdcSource") # {}
          /\ SourceUsd \in UsdcValues

C30_Witness ==
  /\ pc = "done" /\ op = "deposit" /\ path = "zap"
  /\ getZapProtocol(args.vault) = "PICKLE"
  /\ vals.picklePrice = 2 /\ outcome.targetTokenAmountUsdc = 19
  /\ CallsOf("getNormalizedValueUsdc") = {}

\* C31: a quote is requested and a primary call is simulated only for a
\* request whose amount is greater than 0.
C31_PositiveAmountBeforeQuoteOrSimulation ==
  (QuoteCalls \cup PrimaryCalls # {}) => args.amount > 0

\* the allowance reads that were answered
AllowanceReads == {i \in CallsOf("allowance") : calls[i].ret = "ok"}

\* C32: a direct deposit simulates an approval only when the allowance read
\* from the token is strictly below the amount, and a finished one whose
\* allowance was below the amount has simulated it; with an allowance equal to
\* (or above) the amount there is no approval simulation and no sandbox.
C32_DirectApprovalIffAllowanceBelowAmount ==
  (op \in {"deposit", "depositV1"} /\ path = "direct") =>
     /\ ApprovalCalls # {} => AllowanceReads # {}
     /\ \A i \in AllowanceReads :
          /\ calls[i].arg >= args.amount =>
               ApprovalCalls = {} /\ ApprovalForks = {}
          /\ (calls[i].arg < args.amount /\ pc = "done") => ApprovalCalls # {}

C32_Witness ==
  /\ op = "deposit" /\ path = "direct" /\ pc = "done" /\ args.amount = 1
  /\ \E i \in AllowanceReads : calls[i].arg = 1
  /\ ApprovalCalls = {} /\ ApprovalForks = {}

\* C33: when deposit or withdraw has returned or thrown, the options object
\* the caller passed holds the forkId, root, save, gasPrice and gasLimit it
\* held at the call.
C33_CallerOptionsUnchanged ==
  (pc \in {"done", "failed"}) =>
     /\ options.forkId = args.given.forkId
     /\ options.root = args.given.root
     /\ options.save = args.given.save
     /\ options.gasPrice = args.given.gasPrice
     /\ options.gasLimit = args.given.gasLimit

\* the calls a routed producer makes after its quote
NormalizationSvcs ==
  {"getNormalizedValueUsdc", "getPriceUsdc", "getNormalizedValueUsdcSource"}
AfterQuoteCalls ==
  PrimaryCalls \cup {i \in 1..Len(calls) : calls[i].svc \in NormalizationSvcs}
FailedInFirstAttempt ==
  {i \in QuoteCalls \cup AfterQuoteCalls : calls[i].att = 1 /\ calls[i].ret = "error"}

\* C35: the wrapper retries the quote, the primary simulation and the USD
\* normalization together: a failed quote or price lookup of the first attempt
\* leads to the retry, each attempt of a routed transfer requests its own quote
\* before its simulation and price lookups, and at most two quotes are
\* requested per transfer.
C35_RetriedUnitIncludesQuote ==
  (path = "zap") =>
     /\ FailedInFirstAttempt # {} =>
          /\ Len(attemptErrors) >= 1
          /\ pc = "retry" \/ WrapperForks # {}
     /\ \A j \in AfterQuoteCalls :
          \E i \in QuoteCalls :
             i < j /\ calls[i].att = calls[j].att /\ calls[i].ret = "ok"
     /\ \A a \in {1, 2} :
          Cardinality({i \in QuoteCalls : calls[i].att = a}) <= 1
     /\ Cardinality(QuoteCalls) <= 2

C35_Witness ==
  /\ pc = "done" /\ path = "zap" /\ attempt = 2 /\ op = "deposit"
  /\ Cardinality(QuoteCalls) = 2
  /\ \E i \in QuoteCalls : calls[i].att = 1 /\ calls[i].ret = "error"

\* the approval-state queries that were rejected
FailedApprovalQueries ==
  {i \in 1..Len(calls) :
     /\ calls[i].svc \in ApprovalStateSvcs \cup {"allowance"}
     /\ calls[i].ret = "error"}

\* C36: when the approval-state query (the zapper's approval state or the
\* token's allowance) fails, the transfer fails and no sandbox has been
\* created, no quote requested and no simulation submitted.
C36_FailedApprovalQueryEndsTransfer ==
  FailedApprovalQueries # {} =>
     /\ pc = "failed"
     /\ CallsOf("createFork") = {}
     /\ QuoteCalls = {}
     /\ ApprovalCalls \cup PrimaryCalls = {}

C36_Witness ==
  /\ pc = "failed" /\ op = "deposit" /\ path = "zap"
  /\ \E i \in FailedApprovalQueries : calls[i].svc = "zapInApprovalState"
  /\ result = "ZAP_IN_APPROVAL_STATE"

\* the errors of a deposit whose route cannot be taken
RouteRejections ==
  UnsupportedRouteErrors
    \cup {"Deposit is not supported", "Zapper unsupported for chainId"}

\* C37: a deposit whose route family has no handler, and every deposit that
\* ends with an unsupported-route error, has issued no approval-state query,
\* created no sandbox, requested no quote and submitted no simulation.
C37_RouteRejectedBeforeApprovalStep ==
  (\/ /\ op = "deposit" /\ zapDetails.isZapInSupported
      /\ zapDetails.zapInWith \notin HandledFamilies \cup {"undefined"}
   \/ result \in RouteRejections) =>
     /\ \A i \in 1..Len(calls) :
          calls[i].svc \notin ApprovalStateSvcs \cup {"allowance", "createFork"}
     /\ QuoteCalls = {}
     /\ ApprovalCalls \cup PrimaryCalls = {}

C37_Witness ==
  /\ op = "deposit" /\ pc = "failed" /\ chainId = "fantom"
  /\ zapDetails = [isZapInSupported |-> TRUE, zapInWith |-> "ftmApeZap"]
  /\ result = "ftmApeZap not implemented yet!"
  /\ Len(calls) = 2

\* --------------------------------------------- two withdraws in flight at once
\* SimulationInterface.withdraw called twice before either call has settled.
\* JavaScript runs the code between two awaits without interruption, so one
\* action is the stretch from the settling of one await to the next await.
\* The caller hands each call an options object; the two calls may have been
\* handed the same object.
Transfers == {1, 2}
Refs == {1, 2}
Other(t) == 3 - t
\* the amounts the sandbox may report for a simulated withdraw
SandboxAnswers == {950, 1000}

\* the locals of one withdraw call
IdleTransfer(ref) ==
  [pc |-> "idle", ref |-> ref, fromVault |-> Undefined, toToken |-> Undefined,
   isZapping |-> FALSE, needsApproving |-> FALSE, forkId |-> Undefined, attempt |-> 0,
   afterOther |-> FALSE, tokensReceived |-> 0]

ConcurrentInit ==
  /\ SingleInit
  /\ \E ref2 \in Refs : transfers = [t \in Transfers |-> IdleTransfer(IF t = 1 THEN 1 ELSE ref2)]
  /\ heap \in [Refs -> [slippage : {"undefined", "0.01"}, forkId : {Undefined},
                        root : {Undefined}, save : {"undefined"}, gasLimit : {Undefined}]]
  /\ clog = {}
  /\ tokenCalls = <<>>
  /\ LibsInit

\* identifiers the backend and the zapper hand out, distinct per transfer
ForkOf(t) == <<"fork", t>>
SimulationOf(t) == <<"sim", t>>
GasOf(t) == <<"gas", t>>

\* a request to the simulation backend, carrying what the options object holds
\* at the moment the request is made
SimCall(t, kind, att, o) ==
  [t |-> t, kind |-> kind, att |-> att, fork |-> o.forkId, root |-> o.root,
   save |-> o.save, gasLimit |-> o.gasLimit]

\* the result of one stretch of code: the transfer's locals, its options object
\* and the requests it has issued
Apply(t, l, o, log) ==
  /\ transfers' = [transfers EXCEPT ![t] = l]
  /\ heap' = [heap EXCEPT ![l.ref] = o]
  /\ clog' = clog \cup log
  /\ UNCHANGED <<svars, tokenCalls, libs>>

Fail(t) ==
  Apply(t, [transfers[t] EXCEPT !.pc = "failed"], heap[transfers[t].ref], {})

\* simulateWithdrawal(save): `options.save = save`, then zapOut up to its quote
\* request or directWithdraw up to its simulation request
simulateWithdrawal(t, l, o) ==
  LET o1 == [o EXCEPT !.save = "false"] IN
  IF l.isZapping
  THEN Apply(t, [l EXCEPT !.pc = "zapOut"], o1, {})
  ELSE Apply(t, [l EXCEPT !.pc = "simulate"], o1, {SimCall(t, "primary", l.attempt, o1)})

\* no approval is needed: forkId and approvalSimulationId stay undefined and
\* are assigned to the options object, then the wrapper calls the producer
NotNeedsApproving(t, l, o) ==
  simulateWithdrawal(t, [l EXCEPT !.needsApproving = FALSE, !.attempt = 1],
                     [o EXCEPT !.forkId = Undefined, !.root = Undefined])

T_withdraw(t) ==
  /\ transfers[t].pc = "idle"
  /\ \E fromVault \in WithdrawVaults, toToken \in {"DAI", "USDC"} :
       Apply(t, [transfers[t] EXCEPT !.pc = "token", !.fromVault = fromVault,
                                     !.toToken = toToken,
                                     !.afterOther = (transfers[Other(t)].pc = "done")],
             heap[transfers[t].ref], {})

\* vaultContract.token() has settled
T_token(t) ==
  LET l == transfers[t]
      o == heap[l.ref]
  IN
  /\ l.pc = "token"
  /\ \/ Fail(t)
     \/ IF "DAI" # l.toToken
        THEN IF NoSlippage(o) THEN Fail(t)
             ELSE IF l.fromVault = EthAddress
             THEN NotNeedsApproving(t, [l EXCEPT !.isZapping = TRUE], o)
             ELSE Apply(t, [l EXCEPT !.isZapping = TRUE, !.pc = "zapOutApprovalState"], o, {})
        ELSE simulateWithdrawal(t, [l EXCEPT !.attempt = 1], o)

\* zapper.zapOutApprovalState has settled
T_zapOutApprovalState(t) ==
  LET l == transfers[t]
      o == heap[l.ref]
  IN
  /\ l.pc = "zapOutApprovalState"
  /\ \/ Fail(t)
     \/ NotNeedsApproving(t, l, o)
     \/ Apply(t, [l EXCEPT !.needsApproving = TRUE, !.pc = "createFork"], o, {})

\* variant: a forkId already on the options object is left in place
T_createFork_KeepFork(t) ==
  LET l == transfers[t]
      o == heap[l.ref]
  IN
  /\ l.pc = "createFork"
  /\ \/ Fail(t)
     \/ Apply(t, [l EXCEPT !.forkId = ForkOf(t), !.pc = "zapOutApprovalTransaction"],
              [o EXCEPT !.forkId = IF @ = Undefined THEN ForkOf(t) ELSE @], {})

\* createFork has settled: `options.forkId = forkId`
T_createFork(t) ==
  LET l == transfers[t]
      o == heap[l.ref]
  IN
  /\ l.pc = "createFork"
  /\ \/ Fail(t)
     \/ Apply(t, [l EXCEPT !.forkId = ForkOf(t), !.pc = "zapOutApprovalTransaction"],
              [o EXCEPT !.forkId = ForkOf(t)], {})

\* zapper.zapOutApprovalTransaction has settled: the approval is submitted with
\* `{ ...options, save: true }`
T_zapOutApprovalTransaction(t) ==
  LET l == transfers[t]
      o == heap[l.ref]
  IN
  /\ l.pc = "zapOutApprovalTransaction"
  /\ \/ Fail(t)
     \/ Apply(t, [l EXCEPT !.pc = "makeSimulationRequest"], o,
              {SimCall(t, "approval", 0, [o EXCEPT !.save = "true"])})

\* the approval simulation has settled: `options.root = approvalSimulationId`,
\* then the wrapper calls the producer
T_makeSimulationRequest(t) ==
  LET l == transfers[t]
      o == heap[l.ref]
  IN
  /\ l.pc = "makeSimulationRequest"
  /\ \/ Fail(t)
     \/ simulateWithdrawal(t, [l EXCEPT !.attempt = 1],
                           [o EXCEPT !.root = SimulationOf(t)])

\* the producer has thrown: the wrapper retries a first attempt
ProducerFailed(t) ==
  Apply(t, [transfers[t] EXCEPT !.pc = IF transfers[t].attempt = 1
                                       THEN "retry" ELSE "failed"],
        heap[transfers[t].ref], {})

\* zapper.zapOut has settled: `options.gasLimit = zapOutParams.gas` unless the
\* gas estimate was skipped, then the primary call is submitted with `options`
T_zapOut(t) ==
  LET l == transfers[t]
      o == heap[l.ref]
      o1 == IF l.needsApproving THEN o ELSE [o EXCEPT !.gasLimit = GasOf(t)]
  IN
  /\ l.pc = "zapOut"
  /\ \/ ProducerFailed(t)
     \/ Apply(t, [l EXCEPT !.pc = "simulate"], o1, {SimCall(t, "primary", l.attempt, o1)})

\* what a primary call asks the sandbox to execute: the withdraw it encodes and
\* the options it carries, the transfer's own fresh identifiers named "own"
Content(c) ==
  [fromVault |-> transfers[c.t].fromVault, toToken |-> transfers[c.t].toToken,
   fork |-> IF c.fork = ForkOf(c.t) THEN <<"own">> ELSE c.fork,
   root |-> IF c.root = SimulationOf(c.t) THEN <<"own">> ELSE c.root,
   save |-> c.save,
   gasLimit |-> IF c.gasLimit = GasOf(c.t) THEN <<"own">> ELSE c.gasLimit]

PrimaryOf(t) ==
  {c \in clog : c.t = t /\ c.kind = "primary" /\ c.att = transfers[t].attempt}

\* deterministic sandbox execution: a call with the content of the call the
\* other transfer completed with is answered with the same amount
SandboxResult(t) ==
  IF /\ transfers[Other(t)].pc = "done"
     /\ {Content(c) : c \in PrimaryOf(t)} = {Content(c) : c \in PrimaryOf(Other(t))}
  THEN {transfers[Other(t)].tokensReceived}
  ELSE SandboxAnswers

\* the primary simulation has settled
T_simulate(t) ==
  LET l == transfers[t] IN
  /\ l.pc = "simulate"
  /\ \/ ProducerFailed(t)
     \/ \E tokensReceived \in SandboxResult(t) :
          Apply(t, [l EXCEPT !.pc = "getNormalizedValueUsdc",
                             !.tokensReceived = tokensReceived], heap[l.ref], {})

\* oracle.getNormalizedValueUsdc has settled, for the tokens received and, in
\* zapOut, once more for the shares sold
T_getNormalizedValueUsdc(t) ==
  LET l == transfers[t] IN
  /\ l.pc \in {"getNormalizedValueUsdc", "soldAssetAmountUsdc"}
  /\ \/ ProducerFailed(t)
     \/ Apply(t, [l EXCEPT !.pc = IF l.isZapping /\ @ = "getNormalizedValueUsdc"
                                  THEN "soldAssetAmountUsdc" ELSE "done"],
              heap[l.ref], {})

\* the wrapper's createFork has settled: the producer is called once more
T_reSimulate(t) ==
  LET l == transfers[t] IN
  /\ l.pc = "retry"
  /\ \/ Fail(t)
     \/ simulateWithdrawal(t, [l EXCEPT !.attempt = 2], heap[l.ref])

ConcurrentNext ==
  \E t \in Transfers :
    \/ T_withdraw(t)
    \/ T_token(t)
    \/ T_zapOutApprovalState(t)
    \/ T_createFork(t)
    \/ T_zapOutApprovalTransaction(t)
    \/ T_makeSimulationRequest(t)
    \/ T_zapOut(t)
    \/ T_simulate(t)
    \/ T_getNormalizedValueUsdc(t)
    \/ T_reSimulate(t)

ConcurrentSpec == ConcurrentInit /\ [][ConcurrentNext]_vars

\* C19: in every interleaving of two withdraws, each request to the simulation
\* backend carries only what its own transfer established: the sandbox that
\* transfer created, the approval that transfer simulated, the gas limit that
\* transfer was quoted.
C19_TransfersIsolated ==
  \A c \in clog :
    /\ c.fork \in {Undefined, ForkOf(c.t)}
    /\ c.root \in {Undefined, SimulationOf(c.t)}
    /\ c.gasLimit \in {Undefined, GasOf(c.t)}
    /\ c.kind = "approval" => c.fork = ForkOf(c.t)
    /\ (c.kind = "primary" /\ transfers[c.t].needsApproving) =>
          c.fork = ForkOf(c.t) /\ c.root = SimulationOf(c.t)
    /\ (c.kind = "primary" /\ ~transfers[c.t].needsApproving /\ transfers[c.t].isZapping) =>
          c.fork = Undefined /\ c.root = Undefined /\ c.gasLimit = GasOf(c.t)

MaxTokenCalls == 2
\* stands for 2^256 - 1: above every allowance a contract answers here
MaxUint256 == 2147483647
Spenders == {"yvDAI", "DAI"}

\* helpers.isNativeToken: the address is the chain's native asset
isNativeToken(address) == address = EthAddress

\* variant: Ether is not told apart from a token
EtherIsSent_Never(tokenAddress) == FALSE

\* `EthAddress === token`: "If Ether is being sent, no need for approval"
EtherIsSent(tokenAddress) == EthAddress = tokenAddress

TokenCall(method, tokenAddress, reads, sent, threw, amount) ==
  [method |-> method, token |-> tokenAddress, reads |-> reads, sent |-> sent,
   threw |-> threw, amount |-> amount]

Returned(method, tokenAddress, reads, sent, amount) ==
  tokenCalls' = Append(tokenCalls, TokenCall(method, tokenAddress, reads, sent, FALSE, amount))

Threw(method, tokenAddress, reads, sent) ==
  tokenCalls' = Append(tokenCalls, TokenCall(method, tokenAddress, reads, sent, TRUE, 0))

\* tokenContract.allowance(owner, spender), read on chain
ReadAllowance(method, tokenAddress, reads) ==
  \/ Threw(method, tokenAddress, reads, 0)
  \/ \E allowanceAmount \in 0..MaxAmount : Returned(method, tokenAddress, reads, 0, allowanceAmount)

\* populateTransaction.approve, then transaction.sendTransaction(tx)
SendApproval(method, tokenAddress, build, reads) ==
  \/ Threw(method, tokenAddress, Append(reads, build), 0)
  \/ Threw(method, tokenAddress, reads \o <<build, "sendTransaction">>, 1)
  \/ Returned(method, tokenAddress, reads \o <<build, "sendTransaction">>, 1, 0)

\* TokenInterface.allowance(ownerAddress, tokenAddress, spenderAddress)
Token_allowance ==
  /\ Len(tokenCalls) < MaxTokenCalls
  /\ \E tokenAddress \in Tokens, spenderAddress \in Spenders :
       IF isNativeToken(tokenAddress) \/ tokenAddress = spenderAddress
       THEN Returned("allowance", tokenAddress, <<>>, 0, MaxUint256)
       ELSE ReadAllowance("allowance", tokenAddress, <<"allowance">>)
  /\ UNCHANGED <<svars, transfers, heap, clog, libs>>

\* TokenInterface.approve(ownerAddress, tokenAddress, spenderAddress, amount)
Token_approve ==
  /\ Len(tokenCalls) < MaxTokenCalls
  /\ \E tokenAddress \in Tokens, spenderAddress \in Spenders :
       IF isNativeToken(tokenAddress) \/ tokenAddress = spenderAddress
       THEN Threw("approve", tokenAddress, <<>>, 0)
       ELSE SendApproval("approve", tokenAddress, "populateTransaction", <<>>)
  /\ UNCHANGED <<svars, transfers, heap, clog, libs>>

\* the earlier TokenInterface.allowance(address, vaultToken, token, account)
Token_allowanceDeposit ==
  /\ Len(tokenCalls) < MaxTokenCalls
  /\ \E vaultToken \in Tokens, tokenAddress \in Tokens :
       IF EtherIsSent(tokenAddress)
       THEN Returned("allowanceDeposit", tokenAddress, <<>>, 0, MaxUint256)
       ELSE IF vaultToken = tokenAddress
       THEN ReadAllowance("allowanceDeposit", tokenAddress, <<"allowance">>)
       ELSE ReadAllowance("allowanceDeposit", tokenAddress, <<"zapInApprovalState">>)
  /\ UNCHANGED <<svars, transfers, heap, clog, libs>>

\* the earlier TokenInterface.approveDeposit(address, vaultToken, token, amount, account)
Token_approveDeposit ==
  /\ Len(tokenCalls) < MaxTokenCalls
  /\ \E vaultToken \in Tokens, tokenAddress \in Tokens :
       IF EtherIsSent(tokenAddress)
       THEN Returned("approveDeposit", tokenAddress, <<>>, 0, 0)
       ELSE IF vaultToken = tokenAddress
       THEN SendApproval("approveDeposit", tokenAddress, "populateTransaction", <<>>)
       ELSE \/ Threw("approveDeposit", tokenAddress, <<"gas">>, 0)
            \/ Threw("approveDeposit", tokenAddress, <<"gas", "zapInApprovalState">>, 0)
            \/ Returned("approveDeposit", tokenAddress, <<"gas", "zapInApprovalState">>, 0, 0)
            \/ SendApproval("approveDeposit", tokenAddress, "zapInApprovalTransaction",
                            <<"gas", "zapInApprovalState">>)
  /\ UNCHANGED <<svars, transfers, heap, clog, libs>>

TokenNext ==
  \/ Token_allowance
  \/ Token_approve
  \/ Token_allowanceDeposit
  \/ Token_approveDeposit

TokenSpec == Init /\ [][TokenNext]_vars

\* C24: for the native asset, allowance returns the maximum allowance without
\* reading anything from a contract or from the zapper, and approve and
\* approveDeposit hand no transaction to sendTransaction (approve throws,
\* approveDeposit returns true).
C24_NativeTokenNeverApproved ==
  \A i \in 1..Len(tokenCalls) :
    tokenCalls[i].token = EthAddress =>
      /\ tokenCalls[i].reads = <<>>
      /\ tokenCalls[i].sent = 0
      /\ tokenCalls[i].method \in {"allowance", "allowanceDeposit"} =>
           tokenCalls[i].amount = MaxUint256 /\ ~tokenCalls[i].threw
      /\ tokenCalls[i].method = "approve" => tokenCalls[i].threw
      /\ tokenCalls[i].method = "approveDeposit" => ~tokenCalls[i].threw

C24_Witness ==
  /\ Len(tokenCalls) = 2
  /\ tokenCalls[1] = TokenCall("allowance", EthAddress, <<>>, 0, FALSE, MaxUint256)
  /\ tokenCalls[2] = TokenCall("approveDeposit", EthAddress, <<>>, 0, FALSE, 0)

\* ------------------------------------------------------------- termination
\* One transfer from the moment deposit or withdraw has been called, under
\* the assumption that every awaited collaborator call settles: it returns or
\* it rejects, and the handler resumes at its next position.
Terminal == {"done", "failed"}
Positions ==
  {"getDynamic", "findByAddress", "getUnderlyingToken", "zapInApprovalState",
   "depositNeedsApproving", "createFork", "approvalTransaction", "approve",
   "token", "zapOutApprovalState", "execute", "retry", "quote", "simulate",
   "oracleTarget", "picklePrice", "pricePerShare", "oracleSource"} \cup Terminal

\* the options of the requested transfer: no fork and no root supplied
RequestOptions ==
  [slippage : Slippages, forkId : {Undefined}, root : {Undefined},
   save : {"undefined"}, gasPrice : {Undefined}, gasLimit : {Undefined}]

\* deposit, withdraw or the earlier deposit has just been called
RequestedInit ==
  /\ chainId \in Chains
  /\ op \in {"deposit", "withdraw", "depositV1"}
  /\ options \in RequestOptions
  /\ \E tokenAddress \in Tokens, amount \in 0..MaxAmount, underlying \in Tokens,
        toVault \in DepositVaults, fromVault \in WithdrawVaults :
       args = IF op = "withdraw"
              THEN [sellToken |-> Undefined, vault |-> fromVault,
                    underlying |-> underlying, amount |-> amount,
                    toToken |-> tokenAddress, given |-> options]
              ELSE [sellToken |-> tokenAddress, vault |-> toVault,
                    underlying |-> underlying, amount |-> amount,
                    toToken |-> Undefined, given |-> options]
  /\ pc = IF op = "deposit" THEN "getDynamic" ELSE "token"
  /\ path = "none"
  /\ needsApproving = FALSE
  /\ forkId = Undefined
  /\ root = Undefined
  /\ attempt = 0
  /\ saveArg = "undefined"
  /\ retryFork = Undefined
  /\ attemptErrors = <<>>
  /\ dynVault = NoVault
  /\ popts = Undefined
  /\ calls = <<>>
  /\ result = "pending"
  /\ zapDetails = NoZapDetails
  /\ vals = NoVals
  /\ outcome = Undefined
  /\ transfers = <<>>
  /\ heap = <<>>
  /\ clog = {}
  /\ tokenCalls = <<>>
  /\ LibsInit

\* the steps of a requested transfer
RequestedNext ==
  \/ getDynamic
  \/ findByAddress
  \/ getUnderlyingToken
  \/ zapInApprovalState
  \/ depositNeedsApproving
  \/ createFork
  \/ approvalTransaction
  \/ approve
  \/ token
  \/ zapOutApprovalState
  \/ quote
  \/ simulate
  \/ oracleTarget
  \/ picklePrice
  \/ pricePerShare
  \/ oracleSource
  \/ executeSimulationWithReSimulationOnFailure
  \/ reSimulate

\* the awaited call settles and the handler moves to another position
Settles == pc \notin Terminal /\ pc' \in Positions /\ pc' # pc

LiveSpec == RequestedInit /\ [][RequestedNext]_vars /\ WF_pc(Settles)

\* C28: if every awaited call settles, a requested transfer reaches done (the
\* outcome is returned) or failed (an error is raised); until then it always
\* has a next step, and once there it takes no further step, so it issues no
\* further collaborator call.
C28_EveryTransferTerminates ==
  /\ (pc \notin Terminal) ~> (pc \in Terminal)
  /\ [](pc \in Positions)
  /\ [](pc \notin Terminal => ENABLED RequestedNext)
  /\ [](pc \in Terminal => ~ENABLED RequestedNext)

C28_Witness ==
  /\ pc = "done" /\ attempt = 2 /\ needsApproving /\ path = "zap"
  /\ Len(calls) >= 9

\* ------------------------------------------------------- SimulationService
\* services/simulation.ts: the service that simulates one deposit or withdraw
\* with a single request, without approval step, sandbox or retry.  Its
\* `slippage` parameter is kept in options.slippage.
ServiceOps == {"serviceDeposit", "serviceWithdraw"}

\* what a SimulationService transfer never touches
ServiceFrame ==
  <<chainId, needsApproving, forkId, root, attempt, saveArg, retryFork,
    attemptErrors, dynVault, popts, zapDetails, transfers, heap, clog, tokenCalls, libs>>

ServiceOptions ==
  [slippage : Slippages, forkId : {Undefined}, root : {Undefined},
   save : {"undefined"}, gasPrice : {Undefined}, gasLimit : {Undefined}]

\* `.div(new BigNumber(10).pow(18))`, in the precision of the amounts here
ServiceDecimals == 2

\* `slippage === undefined`
SlippageUndefined(o) == o.slippage = "undefined"

\* SimulationService.deposit(from, token, amount, vault, slippage)
Service_deposit ==
  /\ pc = "idle"
  /\ \E tokenAddress \in Tokens, amount \in 0..MaxAmount, vault \in DepositVaults,
        underlying \in Tokens, o \in ServiceOptions :
       /\ args' = [sellToken |-> tokenAddress, vault |-> vault, underlying |-> underlying,
                   amount |-> amount, toToken |-> Undefined, given |-> o]
       /\ options' = o
  /\ op' = "serviceDeposit"
  /\ pc' = "S_token"
  /\ UNCHANGED <<ServiceFrame, path, calls, result, vals, outcome>>

\* SimulationService.withdraw(from, token, amount, vault, slippage)
Service_withdraw ==
  /\ pc = "idle"
  /\ \E tokenAddress \in Tokens, amount \in 0..MaxAmount, vault \in WithdrawVaults,
        underlying \in Tokens, o \in ServiceOptions :
       /\ args' = [sellToken |-> Undefined, vault |-> vault, underlying |-> underlying,
                   amount |-> amount, toToken |-> tokenAddress, given |-> o]
       /\ options' = o
  /\ op' = "serviceWithdraw"
  /\ pc' = "S_token"
  /\ UNCHANGED <<ServiceFrame, path, calls, result, vals, outcome>>

ServiceToken == IF op = "serviceWithdraw" THEN args.toToken ELSE args.sellToken

\* vaultContract.token(), then the branch on isZapping and the slippage check
Service_token ==
  /\ pc = "S_token"
  /\ \/ /\ calls' = Append(calls, Plain("token", "error"))
        /\ Throw("Error")
        /\ UNCHANGED path
     \/ /\ calls' = Append(calls, Plain("token", args.underlying))
        /\ IF args.underlying # ServiceToken
           THEN /\ path' = "zap"
                /\ IF SlippageUndefined(options)
                   THEN Throw("slippage needs to be specified for a zap")
                   ELSE pc' = "S_quote" /\ UNCHANGED result
           ELSE /\ path' = "direct"
                /\ pc' = "S_simulate"
                /\ UNCHANGED result
  /\ UNCHANGED <<ServiceFrame, op, args, options, vals, outcome>>

\* zapperService.zapIn / zapper.zapOut(from, token, amount, vault, "0", slippagePercentage)
Service_quote ==
  /\ pc = "S_quote"
  /\ \/ /\ calls' = Append(calls, Request(IF op = "serviceWithdraw" THEN "zapOut" ELSE "zapIn",
                                          options.slippage, "error"))
        /\ Throw("Error")
     \/ /\ calls' = Append(calls, Request(IF op = "serviceWithdraw" THEN "zapOut" ELSE "zapIn",
                                          options.slippage, "ok"))
        /\ pc' = "S_simulate"
        /\ UNCHANGED result
  /\ UNCHANGED <<ServiceFrame, op, args, options, path, vals, outcome>>

\* the outcome literal of the service's directDeposit and directWithdraw
ServiceDirectOutcome(v) ==
  IF op = "serviceWithdraw"
  THEN [sourceTokenAddress |-> args.vault, sourceTokenAmount |-> args.amount,
        targetTokenAddress |-> args.toToken, targetTokenAmount |-> v.tokensReceived]
  ELSE [sourceTokenAddress |-> args.sellToken, sourceTokenAmount |-> args.amount,
        targetTokenAddress |-> args.vault, targetTokenAmount |-> v.tokensReceived]

\* makeRequest(`${baseUrl}/simulate`, body); the direct functions return here
Service_simulate ==
  /\ pc = "S_simulate"
  /\ \/ /\ calls' = Append(calls, Plain("simulate", "error"))
        /\ Throw("Error")
        /\ UNCHANGED <<vals, outcome>>
     \/ \E tokensReceived \in TokensReceivedValues :
          /\ calls' = Append(calls, Plain("simulate", "ok"))
          /\ vals' = [vals EXCEPT !.tokensReceived = tokensReceived]
          /\ IF path = "direct"
             THEN /\ pc' = "done"
                  /\ result' = "outcome"
                  /\ outcome' = ServiceDirectOutcome(vals')
             ELSE pc' = "S_pricePerShare" /\ UNCHANGED <<result, outcome>>
  /\ UNCHANGED <<ServiceFrame, op, args, options, path>>

\* vaultContract.pricePerShare()
Service_pricePerShare ==
  /\ pc = "S_pricePerShare"
  /\ \/ /\ calls' = Append(calls, Plain("pricePerShare", "error"))
        /\ Throw("Error")
        /\ UNCHANGED vals
     \/ \E p \in PricePerShareValues :
          /\ calls' = Append(calls, Plain("pricePerShare", "ok"))
          /\ vals' = [vals EXCEPT !.pricePerShare = p]
          /\ pc' = "S_oracleReceived"
          /\ UNCHANGED result
  /\ UNCHANGED <<ServiceFrame, op, args, options, path, outcome>>

\* oracle.getNormalizedValueUsdc(token, tokens received)
Service_oracleReceived ==
  /\ pc = "S_oracleReceived"
  /\ \/ /\ calls' = Append(calls, Plain("getNormalizedValueUsdc", "error"))
        /\ Throw("Error")
        /\ UNCHANGED vals
     \/ \E usdc \in UsdcValues :
          /\ calls' = Append(calls, Plain("getNormalizedValueUsdc", "ok"))
          /\ vals' = [vals EXCEPT !.targetUsdc = usdc]
          /\ pc' = "S_oracleVault"
          /\ UNCHANGED result
  /\ UNCHANGED <<ServiceFrame, op, args, options, path, outcome>>

\* zapIn divides the value of `amount` vault tokens by the value of the tokens
\* received; zapOut divides the value of the output by the value of `amount`
ServiceConversionRate(v) ==
  IF op = "serviceWithdraw" THEN Quotient(v.targetUsdc, v.sourceUsdc)
  ELSE Quotient(v.sourceUsdc, v.targetUsdc)

\* the outcome literal of the service's zapIn and zapOut
ServiceZapOutcome(v) ==
  IF op = "serviceWithdraw"
  THEN [sourceTokenAddress |-> args.vault, sourceTokenAmount |-> args.amount,
        targetTokenAddress |-> args.toToken, targetTokenAmount |-> v.tokensReceived,
        targetUnderlyingTokenAddress |-> args.underlying,
        targetUnderlyingTokenAmount |->
          toFixed0(args.amount * v.pricePerShare, Pow10(ServiceDecimals)),
        conversionRate |-> ServiceConversionRate(v),
        slippage |-> OneMinus(ServiceConversionRate(v))]
  ELSE [sourceTokenAddress |-> args.sellToken, sourceTokenAmount |-> args.amount,
        targetTokenAddress |-> args.vault, targetTokenAmount |-> v.tokensReceived,
        targetUnderlyingTokenAddress |-> args.underlying,
        targetUnderlyingTokenAmount |->
          toFixed0(v.tokensReceived * v.pricePerShare, Pow10(ServiceDecimals)),
        conversionRate |-> ServiceConversionRate(v),
        slippage |-> OneMinus(ServiceConversionRate(v))]

\* oracle.getNormalizedValueUsdc(vault, amount), then the outcome
Service_oracleVault ==
  /\ pc = "S_oracleVault"
  /\ \/ /\ calls' = Append(calls, Plain("getNormalizedValueUsdcSource", "error"))
        /\ Throw("Error")
        /\ UNCHANGED <<vals, outcome>>
     \/ \E usdc \in UsdcValues :
          /\ calls' = Append(calls, Plain("getNormalizedValueUsdcSource", "ok"))
          /\ vals' = [vals EXCEPT !.sourceUsdc = usdc]
          /\ pc' = "done"
          /\ result' = "outcome"
          /\ outcome' = ServiceZapOutcome(vals')
  /\ UNCHANGED <<ServiceFrame, op, args, options, path>>

ServiceNext ==
  \/ Service_deposit
  \/ Service_withdraw
  \/ Service_token
  \/ Service_quote
  \/ Service_simulate
  \/ Service_pricePerShare
  \/ Service_oracleReceived
  \/ Service_oracleVault

ServiceSpec == Init /\ [][ServiceNext]_vars

\* C34: a routed deposit or withdraw is rejected as missing slippage exactly
\* when its slippage is absent or 0: with an absent or zero slippage no quote
\* is requested and the transfer ends with the missing-slippage error, and with
\* a non-zero slippage it never ends with that error.
C34_MissingSlippageIffAbsentOrZero ==
  (path = "zap") =>
     /\ NoSlippage(args.given) =>
          /\ QuoteCalls = {}
          /\ pc \in Terminal => result \in MissingSlippageErrors
     /\ ~NoSlippage(args.given) => result \notin MissingSlippageErrors

\* --------------------------------------------------------- getZapInDetails
\* zap.ts: the function called on its own, for every chain, token and vault
\* metadata (getZapInOptions of the earlier file is the same function).
MaxZapCalls == 1

Zap_getZapInDetails ==
  /\ Len(zapCalls) < MaxZapCalls
  /\ \E tokenValue \in TokenValues, vaultMetadata \in MetadataValues :
       zapCalls' = Append(zapCalls,
                          [chainId |-> chainId, token |-> tokenValue,
                           vaultMetadata |-> vaultMetadata,
                           ret |-> getZapInDetails(chainId, tokenValue, vaultMetadata)])
  /\ UNCHANGED <<svars, transfers, heap, clog, tokenCalls, pickle, resolver>>

ZapNext == Zap_getZapInDetails

ZapSpec == Init /\ [][ZapNext]_vars

\* C38: getZapInDetails answers isZapInSupported = true only with a zapInWith
\* that is defined and for which token.supported[zapInWith] is truthy; for a
\* token without a supported map and for null vault metadata it answers
\* isZapInSupported = false and no zapInWith.
C38_SupportedOnlyWithSupportedZap ==
  \A n \in 1..Len(zapCalls) :
    LET c == zapCalls[n] IN
    /\ c.ret.isZapInSupported =>
         /\ c.ret.zapInWith \in ZapNames
         /\ c.token.hasSupported
         /\ c.token.supported[c.ret.zapInWith] = "true"
    /\ (~c.token.hasSupported \/ c.vaultMetadata.isNull) =>
         c.ret = [isZapInSupported |-> FALSE, zapInWith |-> "undefined"]

C38_Witness ==
  \E n \in 1..Len(zapCalls) :
    /\ zapCalls[n].chainId = "fantom"
    /\ zapCalls[n].vaultMetadata.zapInWith = "zapperZapIn"
    /\ zapCalls[n].token.supported["zapperZapIn"] = "false"
    /\ zapCalls[n].ret = [isZapInSupported |-> TRUE, zapInWith |-> "ftmApeZap"]

\* ------------------------------------------------------------ PickleService
\* services/partners/pickle.ts: one PickleService object, called again and
\* again while the clock moves on.
MaxPickleCalls == 2
MaxTicks == 2
JarPrices == {1, 2}
\* how far the clock moves at once: a millisecond, just under an hour, an hour
TickSteps == {1, HourInMilliseconds - 1, HourInMilliseconds}

\* the fields of the object that outlive a call
PickleFields(p) ==
  [pickleJarUSDPrices |-> p.pickleJarUSDPrices, lastFetchedDate |-> p.lastFetchedDate]

\* a finished getPriceUsdc call: `fetched` is "no" when no fetch was made, else
\* how the fetch went; `ret` is pickleJarUSDPrices.get(jar), -1 for undefined
\* (the usdc conversion of the returned value is outside this file)
PickleCall(p, at, before, fetched, threw) ==
  [jar |-> p.jar, at |-> at, before |-> before, after |-> PickleFields(p),
   fetched |-> fetched, threw |-> threw,
   ret |-> IF threw \/ p.jar \notin PickleJars THEN 0 - 1
           ELSE p.pickleJarUSDPrices[p.jar]]

\* time passes, also while a fetch is awaited
Pickle_tick ==
  /\ \E d \in TickSteps :
       /\ pickle.ticks < MaxTicks
       /\ pickle' = [pickle EXCEPT !.now = @ + d, !.ticks = @ + 1]
  /\ UNCHANGED <<svars, transfers, heap, clog, tokenCalls, zapCalls, resolver>>

\* `this.lastFetchedDate < oneHourAgo`
IsStale(lastFetchedDate, oneHourAgo) == lastFetchedDate < oneHourAgo

\* getPriceUsdc(jar) up to its await, or to its return when nothing is fetched
Pickle_getPriceUsdc ==
  /\ pickle.pc = "idle"
  /\ Len(pickle.calls) < MaxPickleCalls
  /\ \E jar \in JarAddresses :
       LET oneHourAgo == pickle.now - HourInMilliseconds
           p == [pickle EXCEPT !.jar = jar, !.oneHourAgo = oneHourAgo]
       IN IF IsStale(pickle.lastFetchedDate, oneHourAgo)
          THEN pickle' = [p EXCEPT !.pc = "fetching"]
          ELSE pickle' = [p EXCEPT !.calls =
                            Append(@, PickleCall(p, pickle.now, PickleFields(pickle),
                                                 "no", FALSE))]
  /\ UNCHANGED <<svars, transfers, heap, clog, tokenCalls, zapCalls, resolver>>

\* fetchPickleJarPrices once `fetch(PickleApiUrl).then(res => res.json())` has
\* settled, and the rest of getPriceUsdc:
\*   rejected  - the request or the JSON parse rejects: nothing is assigned
\*   malformed - the body is not an array of jars with valid addresses: the map
\*               is cleared and the date set, then filter throws
\*   ok        - the map is cleared, the date set, the listed jars' prices set
Pickle_fetch ==
  /\ pickle.pc = "fetching"
  /\ LET before == PickleFields(pickle)
         at == pickle.oneHourAgo + HourInMilliseconds
     IN
     \/ pickle' = [pickle EXCEPT !.pc = "idle",
                     !.calls = Append(@, PickleCall(pickle, at, before, "rejected", TRUE))]
     \/ LET p == [pickle EXCEPT !.pickleJarUSDPrices = NoPrices,
                                !.lastFetchedDate = pickle.now]
        IN pickle' = [p EXCEPT !.pc = "idle",
                        !.calls = Append(@, PickleCall(p, at, before, "malformed", TRUE))]
     \/ \E prices \in [PickleJars -> JarPrices \cup {0 - 1}] :
          LET p == [pickle EXCEPT !.pickleJarUSDPrices = prices,
                                  !.lastFetchedDate = pickle.now]
          IN pickle' = [p EXCEPT !.pc = "idle",
                          !.calls = Append(@, PickleCall(p, at, before, "ok", FALSE))]
  /\ UNCHANGED <<svars, transfers, heap, clog, tokenCalls, zapCalls, resolver>>

PickleNext ==
  \/ Pickle_tick
  \/ Pickle_getPriceUsdc
  \/ Pickle_fetch

PickleSpec == Init /\ [][PickleNext]_vars

\* C39: getPriceUsdc fetches the jar prices only when the last fetch is more
\* than one hour old; a fetch that fails leaves the cached prices and the
\* last-fetched time as they were, so the call after it fetches again.
C39_FetchWhenStaleAndFailureKeepsCache ==
  \A n \in 1..Len(pickle.calls) :
    LET c == pickle.calls[n] IN
    /\ c.fetched # "no" <=> c.before.lastFetchedDate < c.at - HourInMilliseconds
    /\ c.threw =>
         /\ c.after = c.before
         /\ n < Len(pickle.calls) => pickle.calls[n + 1].fetched # "no"

\* ---------------------------------------------------------------- resolveV2
\* vault/resolver/v2.ts: one resolveV2 call against a vault whose withdrawal
\* queue answers each read with a strategy address, the null address, or a
\* rejection.
MaxQueue == 2
NullAddress == "0x0000000000000000000000000000000000000000"
StrategyAddresses == {"strategyA", "strategyB", "strategyC"}
StrategyNames == {"name1", "name2"}

ResolverFail(e) == [resolver EXCEPT !.pc = "failed", !.result = e]

\* resolveV2(address, ctx) is called
Resolver_resolveV2 ==
  /\ resolver.pc = "idle"
  /\ resolver' = [resolver EXCEPT !.pc = "resolveBasic"]
  /\ UNCHANGED <<svars, transfers, heap, clog, tokenCalls, zapCalls, pickle>>

\* `await resolveBasic(address, ctx)`
Resolver_resolveBasic ==
  /\ resolver.pc = "resolveBasic"
  /\ \/ resolver' = ResolverFail("resolveBasic")
     \/ resolver' = [resolver EXCEPT !.pc = "emergencyShutdown"]
  /\ UNCHANGED <<svars, transfers, heap, clog, tokenCalls, zapCalls, pickle>>

\* `await objectAll({ emergencyShutdown: vault.emergencyShutdown() })`, then
\* `strategyAddresses = []` and `i = 0`
Resolver_emergencyShutdown ==
  /\ resolver.pc = "emergencyShutdown"
  /\ \/ resolver' = ResolverFail("emergencyShutdown")
     \/ resolver' = [resolver EXCEPT !.pc = "withdrawalQueue", !.i = 0,
                                     !.strategyAddresses = <<>>]
  /\ UNCHANGED <<svars, transfers, heap, clog, tokenCalls, zapCalls, pickle>>

\* variant: the scan gives up after one read
ScanGoesOn_MaxIterations(strategyAddress, i) ==
  strategyAddress # NullAddress /\ i < 1

\* `while (strategyAddress !== NullAddress)`
ScanGoesOn(strategyAddress, i) == strategyAddress # NullAddress

\* `strategyAddresses.pop()`
Pop(seq) == SubSeq(seq, 1, Len(seq) - 1)

\* one round of the do-while: `await vault.withdrawalQueue(i++)`, push, test;
\* after the last round, pop
Resolver_withdrawalQueue ==
  /\ resolver.pc = "withdrawalQueue"
  /\ \/ resolver' = [ResolverFail("withdrawalQueue") EXCEPT
                       !.i = @ + 1, !.reads = Append(@, "rejected")]
     \/ \E strategyAddress \in StrategyAddresses \cup {NullAddress} :
          /\ strategyAddress # NullAddress => resolver.i < MaxQueue
          /\ LET pushed == Append(resolver.strategyAddresses, strategyAddress)
                 r == [resolver EXCEPT !.i = @ + 1,
                                       !.strategyAddress = strategyAddress,
                                       !.reads = Append(@, strategyAddress)]
             IN IF ScanGoesOn(strategyAddress, r.i)
                THEN resolver' = [r EXCEPT !.strategyAddresses = pushed]
                ELSE resolver' = [r EXCEPT !.strategyAddresses = Pop(pushed),
                                           !.pc = "resolveStrategy"]
  /\ UNCHANGED <<svars, transfers, heap, clog, tokenCalls, zapCalls, pickle>>

\* `await Promise.all(strategyAddresses.map(address => resolveStrategy(address, ctx)))`
\* and the return
Resolver_resolveStrategy ==
  /\ resolver.pc = "resolveStrategy"
  /\ \/ /\ resolver.strategyAddresses # <<>>
        /\ resolver' = ResolverFail("resolveStrategy")
     \/ \E names \in [1..Len(resolver.strategyAddresses) -> StrategyNames] :
          resolver' = [resolver EXCEPT
                         !.pc = "done", !.result = "v2",
                         !.strategies =
                           [k \in 1..Len(resolver.strategyAddresses) |->
                              [name |-> names[k],
                               address |-> resolver.strategyAddresses[k]]]]
  /\ UNCHANGED <<svars, transfers, heap, clog, tokenCalls, zapCalls, pickle>>

ResolverNext ==
  \/ Resolver_resolveV2
  \/ Resolver_resolveBasic
  \/ Resolver_emergencyShutdown
  \/ Resolver_withdrawalQueue
  \/ Resolver_resolveStrategy

ResolverSpec == Init /\ [][ResolverNext]_vars

\* the reads of the withdrawal queue that yielded the null address
NullReads == {k \in 1..Len(resolver.reads) : resolver.reads[k] = NullAddress}
ScanEnded ==
  \/ resolver.pc \in {"resolveStrategy", "done"}
  \/ resolver.pc = "failed" /\ resolver.result = "resolveStrategy"

\* C40: the scan of the withdrawal queue ends exactly when a read yields the
\* null address, which is then the last read; until then every address read
\* is kept and the next index is read; the strategies returned are the
\* addresses read before the null address, in the order read, and the null
\* address is not among them.  (A read that is rejected makes resolveV2 fail.)
C40_StrategiesPrecedeFirstNull ==
  /\ ScanEnded <=> NullReads # {}
  /\ NullReads # {} => NullReads = {Len(resolver.reads)}
  /\ resolver.pc = "withdrawalQueue" =>
       /\ resolver.strategyAddresses = resolver.reads
       /\ resolver.i = Len(resolver.reads)
  /\ ScanEnded =>
       /\ resolver.strategyAddresses = Pop(resolver.reads)
       /\ \A k \in 1..Len(resolver.strategyAddresses) :
            resolver.strategyAddresses[k] # NullAddress
  /\ resolver.pc = "done" =>
       /\ Len(resolver.strategies) = Len(resolver.reads) - 1
       /\ \A k \in 1..Len(resolver.strategies) :
            resolver.strategies[k].address = resolver.reads[k]

C40_Witness ==
  /\ resolver.pc = "done"
  /\ resolver.reads = <<"strategyB", "strategyA", NullAddress>>
  /\ resolver.strategies = <<[name |-> "name1", address |-> "strategyB"],
                             [name |-> "name2", address |-> "strategyA"]>>
====
